---------------------------- MODULE Spec2Model ----------------------------
(***************************************************************************)
(* A model of the Galaxy simulation core: the Hilbert index                *)
(* (src/src/hilbert.rs), the sparse quadtree (src/src/quadtree.rs) and the *)
(* mass aggregation, force query and integration of src/src/galaxy.rs.     *)
(*                                                                         *)
(* Number representation.                                                  *)
(*  - u32 values are held modulo 2^32 as integers of -2^31 .. 2^31-1: a    *)
(*    value below 2^31 is itself, a value v >= 2^31 is held as v - 2^32.   *)
(*    All u32 arithmetic goes through the 16-bit limb operators below, so  *)
(*    that wrapping (release build) and overflow detection (debug build,   *)
(*    overflow-checks on) are both computed.                               *)
(*  - f64 coordinates are exact integers on a grid fine enough that every  *)
(*    halving the model performs is exact; a centre of mass is the exact   *)
(*    rational num/den.  Floating-point rounding is not modelled.          *)
(***************************************************************************)
EXTENDS Integers, Sequences, FiniteSets, TLC

VARIABLES
    min,          \* Quadtree::min
    max,          \* Quadtree::max
    items,        \* Quadtree::items, the flat list of stars
    internal,     \* Quadtree::internal, Vec<Option<Region>>
    nodes,        \* Quadtree::nodes, HashMap<HilbertIndex, QuadtreeNode>
    overflow_checks, \* build profile: TRUE = arithmetic overflow panics
    panicked,     \* the program has panicked (a Rust panic aborts it)
    hil,          \* the argument and result of the Hilbert function under test
    last_call,    \* the last Quadtree / Galaxy call made and its argument
    texture_dirty, \* Galaxy::texture_dirty
    time_scale,   \* Galaxy::time_scale
    pc,           \* the statement of the frame loop that runs next
    integrate_i,  \* the loop variable i of Galaxy::integrate
    updates,      \* the number of Galaxy::update calls started
    log,          \* what the running Galaxy::update has done so far
    input_state,  \* Stage::input_state (the mouse fields of InputState)
    input_log,    \* the deltas the mouse events have delivered, and the
                  \* deltas each Galaxy::update call has been given
    camera        \* Galaxy::camera (locked_star, highlighted_star and
                  \* right_mouse_down_prev of Camera)

\* the variables of the Galaxy and of the frame loop
galaxy_vars ==
    <<texture_dirty, time_scale, pc, integrate_i, updates, log, input_state,
      input_log, camera>>

vars == <<min, max, items, internal, nodes, overflow_checks, panicked, hil,
          last_call, texture_dirty, time_scale, pc, integrate_i, updates, log,
          input_state, input_log, camera>>

---------------------------------------------------------------------------
(* u32 arithmetic on 16-bit limbs *)

Limb == 2^16

Hi(v) == (v \div Limb) % Limb
Lo(v) == v % Limb

FromLimbs(h, l) ==
    IF h >= Limb \div 2 THEN (h - Limb) * Limb + l ELSE h * Limb + l

\* a + b modulo 2^32
WrapAdd(a, b) ==
    IF a >= 0 /\ b >= 0 /\ a <= 2147483647 - b
    THEN a + b
    ELSE LET l == Lo(a) + Lo(b)
             h == Hi(a) + Hi(b) + (l \div Limb)
         IN  FromLimbs(h % Limb, l % Limb)

\* a + b does not fit a u32
AddOverflows(a, b) ==
    IF a >= 0 /\ b >= 0
    THEN FALSE
    ELSE Hi(a) + Hi(b) + ((Lo(a) + Lo(b)) \div Limb) >= Limb

\* the u32 a shifted right by k bits, 0 <= k < 16 (a / 2^k)
ShiftRight(a, k) ==
    FromLimbs(Hi(a) \div 2^k, (Hi(a) % 2^k) * 2^(16 - k) + (Lo(a) \div 2^k))

\* byte k (0 = lowest) of the u32 a
Byte(a, k) ==
    IF k < 2 THEN (Lo(a) \div 2^(8 * k)) % 2^8
             ELSE (Hi(a) \div 2^(8 * (k - 2))) % 2^8

\* the columns c0..c3 of a schoolbook multiplication on bytes, and the sum hi
\* of the columns above them, added up with their carries: the product
\* modulo 2^32 and whether the true product has left the u32 range
MulCarry(c0, c1, c2, c3, hi) ==
    LET t1 == c1 + (c0 \div 2^8)
        t2 == c2 + (t1 \div 2^8)
        t3 == c3 + (t2 \div 2^8)
    IN  [value    |-> FromLimbs((t3 % 2^8) * 2^8 + (t2 % 2^8),
                                (t1 % 2^8) * 2^8 + (c0 % 2^8)),
         overflow |-> (t3 \div 2^8) + hi > 0]

\* a * b by schoolbook multiplication on bytes
MulLoop(a, b) ==
    MulCarry(Byte(a, 0) * Byte(b, 0),
             Byte(a, 0) * Byte(b, 1) + Byte(a, 1) * Byte(b, 0),
             Byte(a, 0) * Byte(b, 2) + Byte(a, 1) * Byte(b, 1)
                + Byte(a, 2) * Byte(b, 0),
             Byte(a, 0) * Byte(b, 3) + Byte(a, 1) * Byte(b, 2)
                + Byte(a, 2) * Byte(b, 1) + Byte(a, 3) * Byte(b, 0),
             Byte(a, 1) * Byte(b, 3) + Byte(a, 2) * Byte(b, 2)
                + Byte(a, 3) * Byte(b, 1) + Byte(a, 2) * Byte(b, 3)
                + Byte(a, 3) * Byte(b, 2) + Byte(a, 3) * Byte(b, 3))

\* a * b as [value, overflow]; operands whose product stays below 2^31 are
\* multiplied directly
Mul32(a, b) ==
    IF a >= 0 /\ b >= 0 /\ (a = 0 \/ b <= 2147483647 \div a)
    THEN [value |-> a * b, overflow |-> FALSE]
    ELSE MulLoop(a, b)

WrapMul(a, b) == Mul32(a, b).value
MulOverflows(a, b) == Mul32(a, b).overflow

---------------------------------------------------------------------------
(* src/src/hilbert.rs *)

MAX_DEPTH == 16

HilbertIndex(index, depth) == <<index, depth>>

\* HilbertIndex::index and HilbertIndex::depth
IndexOf(h) == h[1]
DepthOf(h) == h[2]

\* a rot that flips but never swaps x and y
RotWithoutSwap(n, x, y, rx, ry) ==
    IF ry = 0 /\ rx = 1 THEN <<n - 1 - x, n - 1 - y>> ELSE <<x, y>>

\* HilbertIndex::rot: the rotated/flipped (x, y)
Rot(n, x, y, rx, ry) ==
    IF ry = 0
    THEN IF rx = 1 THEN <<n - 1 - y, n - 1 - x>> ELSE <<y, x>>
    ELSE <<x, y>>

\* 3 * (rx ^ ry): the xor taken before the multiplication
Xor3Misgrouped(rx, ry) == IF rx = ry THEN 0 ELSE 3

\* (3 * rx) ^ ry for rx, ry in {0, 1}
Xor3(rx, ry) == IF rx = 0 THEN ry ELSE 3 - ry

\* bit s of the coordinate v, for s a power of two: (v & s) > 0 as 0 or 1
Bit(v, s) == (v \div s) % 2

\* prod with the overflow flag ovf of an earlier step added
WithOverflow(prod, ovf) ==
    [value |-> prod.value, overflow |-> prod.overflow \/ ovf]

\* ss * digit for ss = [value, overflow] the result of s * s
MulDigit(ss, digit) == WithOverflow(Mul32(ss.value, digit), ss.overflow)

\* s * s * ((3 * rx) ^ ry) as [value, overflow]
FromXYTerm(s, rx, ry) == MulDigit(Mul32(s, s), Xor3(rx, ry))

\* d += term, and the rotated (x, y) = r; st is the loop state
\* [x, y, s, d, overflow], overflow collecting whether an arithmetic step
\* left the u32 range
FromXYAdd(st, r, term) ==
    [x |-> r[1], y |-> r[2], s |-> st.s \div 2,
     d |-> WrapAdd(st.d, term.value),
     overflow |-> \/ st.overflow
                  \/ term.overflow
                  \/ AddOverflows(st.d, term.value)]

\* one pass of the while loop of HilbertIndex::from_xy_depth
FromXYStep(n, st) ==
    FromXYAdd(st,
              Rot(n, st.x, st.y, Bit(st.x, st.s), Bit(st.y, st.s)),
              FromXYTerm(st.s, Bit(st.x, st.s), Bit(st.y, st.s)))

\* the while loop of HilbertIndex::from_xy_depth
RECURSIVE FromXYLoop(_, _)
FromXYLoop(n, st) ==
    IF st.s > 0 THEN FromXYLoop(n, FromXYStep(n, st)) ELSE st

\* what from_xy_depth returns from the state its loop ends in
FromXYResult(st, depth) ==
    [index |-> HilbertIndex(st.d, depth), overflow |-> st.overflow]

\* 1 << depth as a u32: a shift by 32 or more panics in a build with
\* overflow checks and uses depth % 32 otherwise; 2^31 is kept as -2^31
ShlOne(depth) ==
    IF depth % 32 = 31 THEN -2147483647 - 1 ELSE 2^(depth % 32)

\* HilbertIndex::from_xy_depth as [index, overflow]: the index it returns
\* with wrapping arithmetic, and whether a step left the u32 range
FromXY(xy, depth) ==
    FromXYResult(FromXYLoop(ShlOne(depth),
                            [x |-> xy[1], y |-> xy[2],
                             s |-> IF depth % 32 = 0 THEN 0
                                   ELSE 2^((depth % 32) - 1),
                             d |-> 0, overflow |-> depth >= 32]),
                 depth)

\* HilbertIndex::from_xy_depth
from_xy_depth(xy, depth) == FromXY(xy, depth).index

\* from_xy_depth panics in a build with overflow checks
FromXYOverflows(xy, depth) == FromXY(xy, depth).overflow

\* one pass of the while loop of HilbertIndex::to_xy; st is [t, x, y, s]
ToXYStep(st) ==
    LET rx == ShiftRight(st.t, 1) % 2
        ry == ((st.t % 2) + rx) % 2
        r  == Rot(st.s, st.x, st.y, rx, ry)
    IN  [t |-> ShiftRight(st.t, 2), x |-> r[1] + st.s * rx,
         y |-> r[2] + st.s * ry, s |-> st.s * 2]

\* the while loop of HilbertIndex::to_xy
RECURSIVE ToXYLoop(_, _)
ToXYLoop(n, st) ==
    IF st.s < n THEN ToXYLoop(n, ToXYStep(st)) ELSE <<st.x, st.y>>

\* HilbertIndex::to_xy
to_xy(h) ==
    ToXYLoop(2^DepthOf(h), [t |-> IndexOf(h), x |-> 0, y |-> 0, s |-> 1])

\* the four indices from child_offset on
ChildrenFrom(child_offset, child_depth) ==
    << HilbertIndex(WrapAdd(child_offset, 0), child_depth),
       HilbertIndex(WrapAdd(child_offset, 1), child_depth),
       HilbertIndex(WrapAdd(child_offset, 2), child_depth),
       HilbertIndex(WrapAdd(child_offset, 3), child_depth) >>

\* children numbered in grid order of (x, y) instead of along the curve
ChildrenGridOrder(h) ==
    LET xy == to_xy(h)
    IN  << from_xy_depth(<<2 * xy[1], 2 * xy[2]>>, DepthOf(h) + 1),
           from_xy_depth(<<2 * xy[1] + 1, 2 * xy[2]>>, DepthOf(h) + 1),
           from_xy_depth(<<2 * xy[1], 2 * xy[2] + 1>>, DepthOf(h) + 1),
           HilbertIndex(IndexOf(h), DepthOf(h) + 1) >>

\* HilbertIndex::children
children(h) == ChildrenFrom(WrapMul(IndexOf(h), 4), DepthOf(h) + 1)

\* children panics in a build with overflow checks
ChildrenOverflows(h) == MulOverflows(IndexOf(h), 4)

\* HilbertIndex::bounds: <<min, max>>, each an <<x, y>>
bounds(h, root_min, root_max) ==
    LET xy        == to_xy(h)
        grid      == 2^DepthOf(h)
        node_size == << (root_max[1] - root_min[1]) \div grid,
                        (root_max[2] - root_min[2]) \div grid >>
        lo        == << root_min[1] + node_size[1] * xy[1],
                        root_min[2] + node_size[2] * xy[2] >>
    IN  << lo, << lo[1] + node_size[1], lo[2] + node_size[2] >> >>

---------------------------------------------------------------------------
(* The stars passed to Quadtree::add, and the Hilbert indices of the cells *)
(* on their paths                                                          *)

\* the tree covers (-HalfWidth, -HalfWidth) .. (HalfWidth, HalfWidth); the
\* cells of level 20 are one grid unit wide
HalfWidth == 2^19

\* the f64 NaN as a coordinate: a number no bounds and no star's finite
\* coordinate reach. a < b and a == b are false when a or b is NaN.
NaN == 2^30
Less(a, b) == a # NaN /\ b # NaN /\ a < b
SameVec2d(a, b) ==
    /\ a[1] # NaN /\ a[2] # NaN /\ b[1] # NaN /\ b[2] # NaN
    /\ a = b

\* Star
Star(position, velocity, mass) ==
    [position |-> position, velocity |-> velocity, mass |-> mass]

\* the lower corner of cell (x, y) of level d
CellCorner(x, y, d) ==
    << (x * ((2 * HalfWidth) \div 2^d)) - HalfWidth,
       (y * ((2 * HalfWidth) \div 2^d)) - HalfWidth >>

\* the stars passed to add: two that share a cell down to level 18, two
\* that share a cell down to level 16 in another quadrant of the root, one
\* that shares a cell with the first two down to level 3, and two outside
\* the bounds, one beyond max.x and one below min.y
Stars ==
    { Star(CellCorner(3, 0, 17), <<0, 0>>, 1),
      Star(<<CellCorner(3, 0, 17)[1] + 2, CellCorner(3, 0, 17)[2]>>, <<0, 0>>, 2),
      Star(CellCorner(0, 65539, 17), <<0, 0>>, 1),
      Star(CellCorner(1, 65539, 17), <<0, 0>>, 3),
      Star(<<-400000, -400000>>, <<0, 0>>, 2),
      Star(<<HalfWidth + 1, 0>>, <<0, 0>>, 1),
      Star(<<0, -HalfWidth - 1>>, <<0, 0>>, 1) }

\* the cell coordinate of level d a descent by Quadtree::quadrant from the
\* root reaches for a coordinate v inside the bounds: a coordinate on a cell
\* edge belongs to the upper cell, and max itself to the last cell
CellCoord(v, d) ==
    IF (v + HalfWidth) \div ((2 * HalfWidth) \div 2^d) >= 2^d
    THEN 2^d - 1
    ELSE (v + HalfWidth) \div ((2 * HalfWidth) \div 2^d)

CellOf(point, d) == <<CellCoord(point[1], d), CellCoord(point[2], d)>>

\* the stars passed to add where its loops are followed pass by pass: the origin, a position that is not a number,
\* two that share a cell of the box of Spec down to level 18, and one
\* outside both boxes
LoopStars ==
    { Star(<<0, 0>>, <<0, 0>>, 1),
      Star(<<NaN, NaN>>, <<0, 0>>, 1),
      Star(CellCorner(3, 0, 17), <<0, 0>>, 1),
      Star(<<CellCorner(3, 0, 17)[1] + 2, CellCorner(3, 0, 17)[2]>>, <<0, 0>>, 2),
      Star(<<HalfWidth + 1, 0>>, <<0, 0>>, 1) }

\* the cells <<x, y, depth>> on the paths of the stars, and those of a
\* descent that takes quadrant (1, 1) at every level: x * 2 + 1 reaches
\* 2^32 - 1 (kept as -1) after 32 levels and stays there, and the u8 depth
\* starts again at 0 after 255
PathCells ==
    { <<CellOf(s.position, d)[1], CellOf(s.position, d)[2], d>> :
        s \in { st \in Stars \cup LoopStars :
                   /\ st.position[1] \in -HalfWidth .. HalfWidth
                   /\ st.position[2] \in -HalfWidth .. HalfWidth },
        d \in 0 .. 20 }
    \cup { <<2^k - 1, 2^k - 1, k>> : k \in 1 .. 30 }
    \cup { <<2147483647, 2147483647, 31>> }
    \cup { <<-1, -1, d>> : d \in 0 .. 255 }

\* from_xy_depth of the cells on the paths; @@ makes the function a table
\* that is filled once
HilbertTable == [c \in PathCells |-> FromXY(<<c[1], c[2]>>, c[3])] @@ <<>>

\* HilbertIndex::from_xy_depth as [index, overflow], read from the table
\* where the table has the cell
HilbertOf(xy, depth) ==
    IF <<xy[1], xy[2], depth>> \in PathCells
    THEN HilbertTable[<<xy[1], xy[2], depth>>]
    ELSE FromXY(xy, depth)

---------------------------------------------------------------------------
(* src/src/quadtree.rs.  A tree value t is the record of the fields of     *)
(* Quadtree<Star, Region>: [min, max, items, internal, nodes].  A NodeIndex *)
(* is 0-based as in the source: item i is items[i + 1].                    *)

\* QuadtreeNode::Internal and QuadtreeNode::Leaf
Internal(index) == [kind |-> "Internal", index |-> index]
Leaf(index) == [kind |-> "Leaf", index |-> index]

is_leaf(node) == node.kind = "Leaf"
is_internal(node) == node.kind = "Internal"

\* Option<Region>: None, and Some(Region { center_of_mass, mass }) with the
\* centre of mass the exact rational com / den on each axis
None == [is_some |-> FALSE, mass |-> 0, com |-> <<0, 0>>, den |-> 1]
Some(mass, com, den) == [is_some |-> TRUE, mass |-> mass, com |-> com, den |-> den]

\* Quadtree::new
new(mn, mx) ==
    [min |-> mn, max |-> mx, items |-> <<>>, internal |-> <<>>, nodes |-> <<>>]

\* Quadtree::get is Some
has_node(t, index) == index \in DOMAIN t.nodes

\* the Result that Quadtree::new returns: Ok(Self { .. }) for every min, max
NewResult(mn, mx) == [is_ok |-> TRUE, value |-> new(mn, mx)]

\* Quadtree::get_item
get_item(t, index) == t.items[index + 1]

\* a get_internal that hands out an empty region where none is stored
GetInternalOrDefault(t, index) ==
    IF index < Len(t.internal) /\ t.internal[index + 1].is_some
    THEN t.internal[index + 1]
    ELSE Some(0, <<0, 0>>, 1)

\* Quadtree::get_internal, None also for an index past the end
get_internal(t, index) ==
    IF index < Len(t.internal) THEN t.internal[index + 1] ELSE None

\* Quadtree::safe_insert: HashMap::insert replaces the value of a present key
safe_insert(t, index, node) == [t EXCEPT !.nodes = (index :> node) @@ t.nodes]

\* Quadtree::quadrant
quadrant(center, point) ==
    << IF Less(point[1], center[1]) THEN 0 ELSE 1,
       IF Less(point[2], center[2]) THEN 0 ELSE 1 >>

\* max * 0.5 + min * 0.5
Center(mn, mx) == << (mx[1] + mn[1]) \div 2, (mx[2] + mn[2]) \div 2 >>

\* the centre of the box lies on the coordinate grid
Halvable(mn, mx) == (mx[1] + mn[1]) % 2 = 0 /\ (mx[2] + mn[2]) % 2 = 0

\* the bounds after descending into quadrant q of the box with centre c
Descend(mn, mx, c, q) ==
    << << IF q[1] = 0 THEN mn[1] ELSE c[1], IF q[2] = 0 THEN mn[2] ELSE c[2] >>,
       << IF q[1] = 0 THEN c[1] ELSE mx[1], IF q[2] = 0 THEN c[2] ELSE mx[2] >> >>

\* depth() + 1 of a u8 depth in a build without overflow checks; a build
\* with them has panicked in from_xy_depth long before depth 255
NextDepth(h) == (DepthOf(h) + 1) % 256

\* the state of the loop of find_insert_pos after descending into cell xy2
\* with Hilbert index h and bounds b
FindInsertNext(st, xy2, h, b) ==
    [xy |-> xy2, index |-> h.index, min |-> b[1], max |-> b[2],
     overflow |-> st.overflow \/ h.overflow, off_grid |-> FALSE]

\* the descent into quadrant q of the cell with centre cur_center
FindInsertInto(st, cur_center, q) ==
    FindInsertNext(st,
                   << st.xy[1] * 2 + q[1], st.xy[2] * 2 + q[2] >>,
                   HilbertOf(<< st.xy[1] * 2 + q[1], st.xy[2] * 2 + q[2] >>,
                             NextDepth(st.index)),
                   Descend(st.min, st.max, cur_center, q))

\* one pass of the loop of Quadtree::find_insert_pos; st is the loop state
\* [xy, index, min, max, overflow, off_grid]
FindInsertStep(pos, st) ==
    FindInsertInto(st, Center(st.min, st.max),
                   quadrant(Center(st.min, st.max), pos))

\* the loop of Quadtree::find_insert_pos: it ends at an index with no node
\* or with a leaf
RECURSIVE FindInsertLoop(_, _, _)
FindInsertLoop(t, pos, st) ==
    IF ~has_node(t, st.index) \/ is_leaf(t.nodes[st.index])
    THEN st
    ELSE IF ~Halvable(st.min, st.max)
    THEN [st EXCEPT !.off_grid = TRUE]
    ELSE FindInsertLoop(t, pos, FindInsertStep(pos, st))

\* Quadtree::find_insert_pos
find_insert_pos(t, pos) ==
    FindInsertLoop(t, pos, [xy |-> <<0, 0>>, index |-> HilbertIndex(0, 0),
                            min |-> t.min, max |-> t.max,
                            overflow |-> FALSE, off_grid |-> FALSE])

\* the branch of the loop of split_and_insert in which the two items fall
\* into different quadrants: both leaves are stored and the loop ends
SplitApart(st, a, b, index_a, index_b) ==
    [st EXCEPT !.tree = safe_insert(safe_insert(st.tree, index_a.index, a),
                                    index_b.index, b),
               !.overflow = @ \/ index_a.overflow \/ index_b.overflow,
               !.done = TRUE]

\* the branch in which they fall into the same quadrant: an Internal node
\* with the default region handle is stored there and the loop goes on
\* inside it
SplitDeeper(st, xy_a, index_a, bb) ==
    [st EXCEPT !.tree = safe_insert(st.tree, index_a.index, Internal(0)),
               !.insert_pos = index_a.index, !.xy = xy_a,
               !.node_min = bb[1], !.node_max = bb[2],
               !.overflow = @ \/ index_a.overflow]

\* the cell of quadrant q of the cell xy, x * 2 + q modulo 2^32
ChildCell(xy, q) ==
    << WrapAdd(WrapAdd(xy[1], xy[1]), q[1]),
       WrapAdd(WrapAdd(xy[2], xy[2]), q[2]) >>

\* one pass of the loop with the quadrants of the two items known
SplitQuadrants(st, a, b, node_center, quadrant_a, quadrant_b) ==
    IF quadrant_a # quadrant_b
    THEN SplitApart(st, a, b,
                    HilbertOf(ChildCell(st.xy, quadrant_a),
                              NextDepth(st.insert_pos)),
                    HilbertOf(ChildCell(st.xy, quadrant_b),
                              NextDepth(st.insert_pos)))
    ELSE SplitDeeper(st, ChildCell(st.xy, quadrant_a),
                     HilbertOf(ChildCell(st.xy, quadrant_a),
                               NextDepth(st.insert_pos)),
                     Descend(st.node_min, st.node_max, node_center, quadrant_a))

\* one pass of the loop of Quadtree::split_and_insert; st is the state of
\* the call [tree, insert_pos, xy, node_min, node_max, overflow, off_grid,
\* done, panic, a, b, a_xy, b_xy]: a and b are the two leaf nodes, a_xy and
\* b_xy their items' positions
SplitStep(st) ==
    SplitQuadrants(st, st.a, st.b, Center(st.node_min, st.node_max),
                   quadrant(Center(st.node_min, st.node_max), st.a_xy),
                   quadrant(Center(st.node_min, st.node_max), st.b_xy))

\* one pass of the loop where the model can follow it: the centre of the
\* node has to lie on the coordinate grid
SplitPass(st) ==
    IF ~Halvable(st.node_min, st.node_max)
    THEN [st EXCEPT !.off_grid = TRUE]
    ELSE SplitStep(st)

\* the loop of Quadtree::split_and_insert
RECURSIVE SplitLoop(_)
SplitLoop(st) ==
    IF st.done \/ st.off_grid THEN st ELSE SplitLoop(SplitPass(st))

\* what add leaves behind from the state its call ends in
SplitResult(r) ==
    [tree |-> r.tree, overflow |-> r.overflow, off_grid |-> r.off_grid,
     panic |-> r.panic]

\* the state of a call of add that has returned or panicked with the tree t
Returned(t, overflow, off_grid, panic) ==
    [tree |-> t, insert_pos |-> HilbertIndex(0, 0), xy |-> <<0, 0>>,
     node_min |-> <<0, 0>>, node_max |-> <<0, 0>>,
     overflow |-> overflow, off_grid |-> off_grid, done |-> TRUE,
     panic |-> panic, a |-> Leaf(0), b |-> Leaf(0),
     a_xy |-> <<0, 0>>, b_xy |-> <<0, 0>>]

\* the state in which the loop of split_and_insert is entered at the cell
\* xy of insert_pos, whose side is original_node_size
SplitFrom(t1, insert_pos, a, b, a_xy, b_xy, xy, original_node_size) ==
    [Returned(t1, FALSE, FALSE, FALSE) EXCEPT
        !.insert_pos = insert_pos, !.xy = xy,
        !.node_min = << t1.min[1] + original_node_size[1] * xy[1],
                        t1.min[2] + original_node_size[2] * xy[2] >>,
        !.node_max = << t1.min[1] + original_node_size[1] * xy[1]
                           + original_node_size[1],
                        t1.min[2] + original_node_size[2] * xy[2]
                           + original_node_size[2] >>,
        !.done = FALSE, !.a = a, !.b = b, !.a_xy = a_xy, !.b_xy = b_xy]

\* split_and_insert after the region slot is pushed and the leaf replaced,
\* up to its loop: t1 is the tree then, a the leaf that was at insert_pos,
\* b the new leaf
SplitLeaf(t1, insert_pos, a, b, a_xy, b_xy) ==
    IF ~is_leaf(a)
    THEN Returned(t1, FALSE, FALSE, TRUE)
    ELSE IF SameVec2d(a_xy, b_xy)
    THEN Returned(t1, FALSE, FALSE, FALSE)
    ELSE SplitFrom(t1, insert_pos, a, b, a_xy, b_xy, to_xy(insert_pos),
                   << (t1.max[1] - t1.min[1]) \div 2^DepthOf(insert_pos),
                      (t1.max[2] - t1.min[2]) \div 2^DepthOf(insert_pos) >>)

\* Quadtree::split_and_insert up to its loop
SplitEnter(t, insert_pos, item) ==
    SplitLeaf([t EXCEPT !.internal = Append(@, None),
                        !.nodes[insert_pos] = Internal(Len(t.internal))],
              insert_pos, t.nodes[insert_pos], Leaf(item),
              IF is_leaf(t.nodes[insert_pos])
              THEN t.items[t.nodes[insert_pos].index + 1].position
              ELSE <<0, 0>>,
              t.items[item + 1].position)

\* Quadtree::split_and_insert
split_and_insert(t, insert_pos, item) ==
    SplitLoop(SplitEnter(t, insert_pos, item))

\* a bounds test that looks at the x axis only
OutOfBoundsOnXOnly(t, pos) ==
    Less(pos[1], t.min[1]) \/ Less(t.max[1], pos[1])

\* the position is outside the bounds of the quadtree
OutOfBounds(t, pos) ==
    \/ Less(pos[1], t.min[1]) \/ Less(t.max[1], pos[1])
    \/ Less(pos[2], t.min[2]) \/ Less(t.max[2], pos[2])

\* add after find_insert_pos has returned f and the item has been pushed
\* (t1 is the tree then, index the item's place in items), up to the loop
\* of split_and_insert
AddAt(t, t1, index, f) ==
    IF f.off_grid
    THEN Returned(t, f.overflow, TRUE, FALSE)
    ELSE IF ~has_node(t1, f.index)
    THEN Returned(safe_insert(t1, f.index, Leaf(index)), f.overflow, FALSE,
                  FALSE)
    ELSE [SplitEnter(t1, f.index, index) EXCEPT
             !.overflow = @ \/ f.overflow]

\* Quadtree::add up to the loop of split_and_insert: the state of the call
\* when the loop is entered, or when the call returns without entering it
add_enter(t, item) ==
    IF OutOfBounds(t, item.position)
    THEN Returned(t, FALSE, FALSE, FALSE)
    ELSE AddAt(t, [t EXCEPT !.items = Append(@, item)], Len(t.items),
               find_insert_pos(t, item.position))

\* Quadtree::add: the tree after the call (computed with wrapping u32
\* arithmetic), whether an arithmetic step overflowed a u32 on the way (a
\* panic in a build with overflow checks), whether the descent left the
\* coordinate grid of the model, and whether an explicit panic! was hit
add(t, item) == SplitResult(SplitLoop(add_enter(t, item)))

\* the children walk_indices pushes after the callback: those of the four
\* that have a node, in the order 0..3, and none from depth MAX_DEPTH - 1 on
WalkPushed(t, hilbert_index) ==
    IF DepthOf(hilbert_index) + 1 < MAX_DEPTH
    THEN SelectSeq([i \in 1 .. 4 |->
                       HilbertIndex(IndexOf(hilbert_index) * 4 + (i - 1),
                                    DepthOf(hilbert_index) + 1)],
                   LAMBDA child_index : has_node(t, child_index))
    ELSE <<>>

\* the while loop of walk_indices: pop_back, callback, push_back of the
\* children; out is the sequence of indices the callback has been given
RECURSIVE WalkLoop(_, _, _)
WalkLoop(t, stack, out) ==
    IF stack = <<>>
    THEN out
    ELSE WalkLoop(t,
                  SubSeq(stack, 1, Len(stack) - 1)
                      \o WalkPushed(t, stack[Len(stack)]),
                  Append(out, stack[Len(stack)]))

\* Quadtree::walk_indices: the indices passed to the callback, in order; the
\* root index is on the stack before any node is looked up
walk_indices(t) == WalkLoop(t, <<HilbertIndex(0, 0)>>, <<>>)

---------------------------------------------------------------------------
(* src/src/galaxy.rs: the mass distribution *)

\* Quadtree::set_internal on an index past the end panics
SetInternalPanics(t, index) == Len(t.internal) <= index

\* Quadtree::set_internal
set_internal(t, index, value) == [t EXCEPT !.internal[index + 1] = value]

\* the local variables of one call of update_mass_distribution_inner: the
\* node, its four children, the child the for loop is at, and the sums
Frame(index) ==
    [index |-> index, kids |-> children(index), k |-> 1, mass |-> 0,
     com |-> <<0, 0>>]

\* the end of a call of update_mass_distribution_inner: the region is
\* stored, and the caller, if there is one, reads it back through the
\* child's handle and adds it to its sums. written lists the regions stored
\* in this pass, with the index of the node, in the order of the stores;
\* added lists the regions read back, with the indices of caller and child
AggregateReturn(st) ==
    LET n    == Len(st.stack)
        top  == st.stack[n]
        node == st.tree.nodes[top.index]
        t2   == set_internal(st.tree, node.index,
                             Some(top.mass, top.com,
                                  IF top.mass # 0 THEN top.mass ELSE 1))
        parent     == st.stack[n - 1]
        child_node == st.tree.nodes[parent.kids[parent.k]]
        region     == get_internal(t2, child_node.index)
        stored     == Append(st.written,
                             [index |-> top.index,
                              value |-> t2.internal[node.index + 1]])
        read       == Append(st.added,
                             [parent |-> parent.index, child |-> top.index,
                              value |-> region])
    IN  IF ~has_node(st.tree, top.index) \/ ~is_internal(node)
           \/ SetInternalPanics(st.tree, node.index)
        THEN [st EXCEPT !.panic = TRUE]
        ELSE IF n = 1
        THEN [st EXCEPT !.tree = t2, !.stack = <<>>, !.written = stored]
        ELSE IF ~region.is_some
        THEN [st EXCEPT !.tree = t2, !.panic = TRUE, !.written = stored,
                        !.added = read]
        ELSE [st EXCEPT
                !.tree = t2, !.written = stored, !.added = read,
                !.stack = [i \in 1 .. (n - 1) |->
                    IF i < n - 1 THEN st.stack[i]
                    ELSE [parent EXCEPT
                            !.k = @ + 1,
                            !.mass = @ + region.mass,
                            !.com = << @[1] + (region.mass * region.com[1])
                                                 \div region.den,
                                       @[2] + (region.mass * region.com[2])
                                                 \div region.den >>]]]

\* one pass of the for loop of the call on top of the stack: an absent
\* child is skipped, a Leaf child is added, an Internal child is recursed
\* into; st is [tree, stack, panic, overflow], overflow collecting whether
\* children() left the u32 range
AggregateStep(st) ==
    IF st.panic \/ st.stack = <<>>
    THEN st
    ELSE LET n           == Len(st.stack)
             top         == st.stack[n]
             child_index == top.kids[top.k]
             child_node  == st.tree.nodes[child_index]
             star        == get_item(st.tree, child_node.index)
         IN  IF top.k > 4
             THEN AggregateReturn(st)
             ELSE IF ~has_node(st.tree, child_index)
             THEN [st EXCEPT !.stack[n].k = @ + 1]
             ELSE IF is_internal(child_node)
             THEN [st EXCEPT !.stack = Append(@, Frame(child_index)),
                             !.overflow = @ \/ ChildrenOverflows(child_index)]
             ELSE [st EXCEPT !.stack[n].k = @ + 1,
                             !.stack[n].mass = @ + star.mass,
                             !.stack[n].com = << @[1] + star.position[1],
                                                 @[2] + star.position[2] >>]

\* the calls run until the first one has returned or one has panicked
RECURSIVE AggregateLoop(_)
AggregateLoop(st) ==
    IF st.panic \/ st.stack = <<>>
    THEN st
    ELSE AggregateLoop(AggregateStep(AggregateStep(AggregateStep(
                           AggregateStep(st)))))

\* what update_mass_distribution_inner leaves behind
AggregateResult(r) ==
    [tree |-> r.tree, panic |-> r.panic, overflow |-> r.overflow,
     written |-> r.written, added |-> r.added]

\* Galaxy::update_mass_distribution_inner: [tree, panic, overflow]
update_mass_distribution_inner(t, index) ==
    AggregateResult(AggregateLoop([tree |-> t, stack |-> <<Frame(index)>>,
                                   panic |-> FALSE,
                                   overflow |-> ChildrenOverflows(index),
                                   written |-> <<>>, added |-> <<>>]))

\* Galaxy::update_mass_distribution
update_mass_distribution(t) ==
    LET root_index == HilbertIndex(0, 0)
    IN  IF has_node(t, root_index) /\ is_internal(t.nodes[root_index])
        THEN update_mass_distribution_inner(t, root_index)
        ELSE [tree |-> t, panic |-> FALSE, overflow |-> FALSE,
              written |-> <<>>, added |-> <<>>]

---------------------------------------------------------------------------
(* src/src/galaxy.rs: the acceleration query and the integration.          *)
(* Units: one grid unit of length is GALAXY_DIAMETER / 32 parsecs, masses  *)
(* are in units in which GRAVITATIONAL_CONSTANT is 1, and time is in units *)
(* of INITIAL_TIME_SCALE * FIXED_TIMESTEP seconds.  An f64 velocity or     *)
(* acceleration is held to one grid unit: a quotient is truncated toward   *)
(* zero and a square root is rounded down.                                 *)

GALAXY_DIAMETER == 32
GALAXY_RADIUS == GALAXY_DIAMETER \div 2
GRAVITATIONAL_CONSTANT == 1
MIN_GRAVITY_DISTANCE_SQUARED == 0
SUPERMASSIVE_BLACK_HOLE_MASS == 400
INITIAL_TIME_SCALE == 1
FIXED_TIMESTEP == 1

\* a / b for b > 0, truncated toward zero
Quot(a, b) == IF a >= 0 THEN a \div b ELSE -((-a) \div b)

\* f64::sqrt rounded down, for 0 <= v < 2^30, one bit of the root per pass
RECURSIVE SqrtLoop(_, _, _)
SqrtLoop(v, r, b) ==
    IF b = 0 THEN r
    ELSE SqrtLoop(v, IF (r + b) * (r + b) <= v THEN r + b ELSE r, b \div 2)

Sqrt(v) == SqrtLoop(v, 0, 2^14)

\* f64::max
F64Max(a, b) == IF a >= b THEN a ELSE b

\* the result of acceleration_at_point_inner: the force, the contributions
\* added to it (pulls, each with its diff and dist), the Internal nodes
\* whose region was read (each with the region, and whether it was taken as
\* one point mass), and whether an expect() failed
NoForce == [force |-> <<0, 0>>, visited |-> {}, panic |-> FALSE, pulls |-> {}]

\* a + b of two f64: not a number when one of them is not
F64Add(a, b) == IF a = NaN \/ b = NaN THEN NaN ELSE a + b

\* force + force
SumForces(a, b) ==
    [force |-> <<F64Add(a.force[1], b.force[1]), F64Add(a.force[2], b.force[2])>>,
     visited |-> a.visited \cup b.visited,
     panic |-> a.panic \/ b.panic,
     pulls |-> a.pulls \cup b.pulls]

\* dir * force_of_gravity for dir = diff / dist, which is not a number when
\* dist is 0.0 (0.0 / 0.0, or infinity * 0.0 on one axis)
Pull(diff, dist, force_of_gravity) ==
    [NoForce EXCEPT
        !.force = IF dist = 0
                  THEN <<NaN, NaN>>
                  ELSE << Quot(diff[1] * force_of_gravity, dist),
                          Quot(diff[2] * force_of_gravity, dist) >>,
        !.pulls = {[diff |-> diff, dist |-> dist]}]

\* the Leaf arm of acceleration_at_point_inner with diff and d_squared known
LeafPull(star, diff, d_squared) ==
    IF d_squared > 0
    THEN Pull(diff, Sqrt(d_squared),
              Quot(star.mass * GRAVITATIONAL_CONSTANT, d_squared))
    ELSE NoForce

\* the Leaf arm of acceleration_at_point_inner
LeafForce(star, point) ==
    LeafPull(star,
             <<star.position[1] - point[1], star.position[2] - point[2]>>,
             F64Max(MIN_GRAVITY_DISTANCE_SQUARED,
                    (star.position[1] - point[1]) * (star.position[1] - point[1])
                    + (star.position[2] - point[2]) * (star.position[2] - point[2])))

\* region.center_of_mass - point, times region.den
RegionDiff(region, point) ==
    << region.com[1] - region.den * point[1],
       region.com[2] - region.den * point[2] >>

\* dist_squared, times region.den squared
RegionDistSquared(region, point) ==
    RegionDiff(region, point)[1] * RegionDiff(region, point)[1]
    + RegionDiff(region, point)[2] * RegionDiff(region, point)[2]

\* node_size = GALAXY_DIAMETER / (1 << index.depth()) as f64, as the
\* fraction <<numerator, denominator>>
NodeSize(depth) == <<GALAXY_DIAMETER, 2^depth>>

\* node_size / dist > 1.0 for node_size = GALAXY_DIAMETER / (1 << depth) and
\* dist = Sqrt(dist_squared_den) / den
NodeSizeOverDistAboveOne(depth, dist_squared_den, den) ==
    IF NodeSize(depth)[2] <= NodeSize(depth)[1]
    THEN (NodeSize(depth)[1] \div NodeSize(depth)[2])
            * (NodeSize(depth)[1] \div NodeSize(depth)[2])
            * den * den > dist_squared_den
    ELSE den * den
            > dist_squared_den * (NodeSize(depth)[2] \div NodeSize(depth)[1])
                               * (NodeSize(depth)[2] \div NodeSize(depth)[1])

\* a condition without the test of dist against 0.0
TakenAsPointMassAtAnyDistance(region, point, index) ==
    NodeSizeOverDistAboveOne(DepthOf(index), RegionDistSquared(region, point),
                             region.den)

\* the condition under which acceleration_at_point_inner takes an Internal
\* node as one point mass: dist != 0.0 && node_size / dist > 1.0
TakenAsPointMass(region, point, index) ==
    /\ RegionDistSquared(region, point) # 0
    /\ NodeSizeOverDistAboveOne(DepthOf(index), RegionDistSquared(region, point),
                                region.den)

\* the read of an Internal node's region, as acceleration_at_point_inner
\* made it
Visit(index, region, point, point_mass) ==
    [index |-> index, region |-> region, point |-> point,
     point_mass |-> point_mass]

\* the arm of the if in which the region is one point mass
RegionPull(region, point) ==
    Pull(RegionDiff(region, point), Sqrt(RegionDistSquared(region, point)),
         Quot(region.mass * GRAVITATIONAL_CONSTANT * region.den * region.den,
              RegionDistSquared(region, point)))

RECURSIVE acceleration_at_point_inner(_, _, _)

\* the else arm: the sum over index.children()
ChildrenForce(t, point, kids) ==
    SumForces(SumForces(acceleration_at_point_inner(t, point, kids[1]),
                        acceleration_at_point_inner(t, point, kids[2])),
              SumForces(acceleration_at_point_inner(t, point, kids[3]),
                        acceleration_at_point_inner(t, point, kids[4])))

\* the Internal arm of acceleration_at_point_inner
RegionForce(t, point, index, region) ==
    IF ~region.is_some
    THEN [NoForce EXCEPT !.panic = TRUE]
    ELSE IF TakenAsPointMass(region, point, index)
    THEN [RegionPull(region, point) EXCEPT
             !.visited = {Visit(index, region, point, TRUE)}]
    ELSE SumForces([NoForce EXCEPT
                       !.visited = {Visit(index, region, point, FALSE)}],
                   ChildrenForce(t, point, children(index)))

\* Galaxy::acceleration_at_point_inner
acceleration_at_point_inner(t, point, index) ==
    IF ~has_node(t, index)
    THEN NoForce
    ELSE IF is_leaf(t.nodes[index])
    THEN LeafForce(get_item(t, t.nodes[index].index), point)
    ELSE RegionForce(t, point, index, get_internal(t, t.nodes[index].index))

\* Galaxy::acceleration_at_point
acceleration_at_point(t, point) ==
    acceleration_at_point_inner(t, point, HilbertIndex(0, 0))

\* the star after the two assignments of the loop body of Galaxy::integrate,
\* velocity being the velocity already updated
MovedByOldVelocity(star, velocity, scale, time_delta) ==
    [star EXCEPT
        !.velocity = velocity,
        !.position = << star.position[1] + star.velocity[1] * scale * time_delta,
                        star.position[2] + star.velocity[2] * scale * time_delta >>]

Moved(star, velocity, scale, time_delta) ==
    [star EXCEPT
        !.velocity = velocity,
        !.position = << star.position[1] + velocity[1] * scale * time_delta,
                        star.position[2] + velocity[2] * scale * time_delta >>]

\* the loop body of Galaxy::integrate for the star at index in items
integrate_star(star, acceleration, scale, time_delta) ==
    Moved(star,
          << star.velocity[1] + acceleration[1] * scale * time_delta,
             star.velocity[2] + acceleration[2] * scale * time_delta >>,
          scale, time_delta)

\* the result of the adds made so far, after one more add returned a
AddNext(r, a) ==
    [tree |-> a.tree, overflow |-> r.overflow \/ a.overflow,
     off_grid |-> a.off_grid, panic |-> a.panic]

\* for star in stars { quadtree.add(star) }
RECURSIVE AddAll(_, _, _)
AddAll(r, stars, k) ==
    IF k > Len(stars) \/ r.panic \/ r.off_grid
    THEN r
    ELSE AddAll(AddNext(r, add(r.tree, stars[k])), stars, k + 1)

\* the quadtree of Galaxy::new and of Galaxy::update: Quadtree::new over
\* twice the radius of the galaxy, and every star added in order
rebuild(stars) ==
    AddAll([tree |-> new(<<-GALAXY_RADIUS * 2, -GALAXY_RADIUS * 2>>,
                         <<GALAXY_RADIUS * 2, GALAXY_RADIUS * 2>>),
            overflow |-> FALSE, off_grid |-> FALSE, panic |-> FALSE],
           stars, 1)

---------------------------------------------------------------------------
(* The quadtree driven through Quadtree::new, Quadtree::add and            *)
(* Galaxy::update_mass_distribution, as Galaxy::update drives it           *)

\* the most stars passed to add between two Quadtree::new
MaxItems == 5

\* the quadtree held in the variables
Tree == [min |-> min, max |-> max, items |-> items, internal |-> internal,
         nodes |-> nodes]

\* no Hilbert function is under test
NoHil == [op |-> "none", xy |-> <<0, 0>>, index |-> <<0, 0>>,
          out_xy |-> <<0, 0>>, out_index |-> <<0, 0>>,
          kids |-> <<>>, box |-> <<>>, kid_boxes |-> <<>>]

\* what a call of add that is in state st has in its local variables;
\* running is whether it is inside the loop of split_and_insert
LoopOf(st, running) ==
    [running |-> running, off_grid |-> st.off_grid,
     insert_pos |-> st.insert_pos, xy |-> st.xy,
     node_min |-> st.node_min, node_max |-> st.node_max,
     a |-> st.a, b |-> st.b, a_xy |-> st.a_xy, b_xy |-> st.b_xy]

\* no call of add is inside the loop
NoLoop == LoopOf(Returned(<<>>, FALSE, FALSE, FALSE), FALSE)

\* no call has been made. Of a call that has been made: is_ok is whether it
\* returned Ok, created the Internal nodes that add calls have created since
\* the last aggregation pass, walked the indices walk_indices has passed to
\* its callback, acc the result of an acceleration query, loop the local
\* variables of an add that is inside the loop of split_and_insert, written
\* and added the regions an aggregation pass has stored and read back
NoCall ==
    [op |-> "none", item |-> Star(<<0, 0>>, <<0, 0>>, 0), is_ok |-> TRUE,
     created |-> {}, walked |-> <<>>, acc |-> NoForce, loop |-> NoLoop,
     written |-> <<>>, added |-> <<>>]

\* InputState::default(): every number 0.0. The three button flags are left
\* out: no assignment to a mouse delta depends on them.
DefaultInputState ==
    [mouse_wheel_dy |-> 0, mouse_pos |-> <<0, 0>>, mouse_diff |-> <<0, 0>>,
     right_mouse_button_down |-> FALSE]

\* Option<usize>
NoStar == [is_some |-> FALSE, index |-> 0]
SomeStar(index) == [is_some |-> TRUE, index |-> index]

\* Camera::new
CameraNew ==
    [locked_star |-> NoStar, highlighted_star |-> 0,
     right_mouse_down_prev |-> FALSE]

\* Galaxy::find_nearest_star: the descent from index by the quadrant of the
\* point; the star of the Leaf it ends at, 0 where it ends at no node
RECURSIVE find_nearest_star(_, _, _)
find_nearest_star(t, point, index) ==
    IF ~has_node(t, index) THEN 0
    ELSE IF is_leaf(t.nodes[index]) THEN t.nodes[index].index
    ELSE LET xy == to_xy(index)
             b  == bounds(index, t.min, t.max)
             q  == quadrant(Center(b[1], b[2]), point)
         IN  find_nearest_star(t, point,
                               HilbertOf(<< xy[1] * 2 + q[1], xy[2] * 2 + q[2] >>,
                                         DepthOf(index) + 1).index)

\* the locked star after the right mouse button has gone down: a lock is
\* released, and without a lock the highlighted star is locked
ToggleLock(locked_star, highlighted_star) ==
    IF locked_star.is_some THEN NoStar ELSE SomeStar(highlighted_star)

\* the camera after the highlighted star has been updated
WithLock(cam, state, highlighted_star) ==
    [locked_star |->
         IF state.right_mouse_button_down /\ ~cam.right_mouse_down_prev
         THEN ToggleLock(cam.locked_star, highlighted_star)
         ELSE cam.locked_star,
     highlighted_star |-> highlighted_star,
     right_mouse_down_prev |-> state.right_mouse_button_down]

\* Galaxy::update_camera, from the update of the highlighted star on;
\* mouse_pos_world is window_to_world of the mouse position
update_camera(cam, t, state, mouse_pos_world) ==
    WithLock(cam, state,
             IF cam.locked_star.is_some
             THEN cam.highlighted_star
             ELSE find_nearest_star(t, mouse_pos_world, HilbertIndex(0, 0)))

\* self.quadtree.items[locked_star] of update_camera is out of range
LockedStarMissing(cam, t) ==
    cam.locked_star.is_some /\ cam.locked_star.index >= Len(t.items)

\* a mouse_wheel_event that keeps the last delta only
MouseWheelOverwrites(state, y) ==
    [state EXCEPT !.mouse_wheel_dy = y]

\* Stage::mouse_wheel_event(x, y)
mouse_wheel_event(state, y) ==
    [state EXCEPT !.mouse_wheel_dy = @ + y]

\* Stage::mouse_button_down_event and Stage::mouse_button_up_event for the
\* right button: down is the state of the button after the event
mouse_button_event(state, down) ==
    [state EXCEPT !.right_mouse_button_down = down]

\* Stage::mouse_motion_event(x, y)
mouse_motion_event(state, x, y) ==
    [state EXCEPT
        !.mouse_pos = <<x, y>>,
        !.mouse_diff = << @[1] + (x - state.mouse_pos[1]),
                          @[2] + (y - state.mouse_pos[2]) >>]

\* no Galaxy has been constructed
NoGalaxy ==
    /\ texture_dirty = FALSE
    /\ time_scale = 0
    /\ pc = "none"
    /\ integrate_i = 0
    /\ updates = 0
    /\ log = <<>>
    /\ input_state = DefaultInputState
    /\ input_log = <<>>
    /\ camera = CameraNew

Init ==
    /\ min = <<-HalfWidth, -HalfWidth>>
    /\ max = <<HalfWidth, HalfWidth>>
    /\ items = new(min, max).items
    /\ internal = new(min, max).internal
    /\ nodes = new(min, max).nodes
    /\ overflow_checks \in BOOLEAN
    /\ panicked = FALSE
    /\ hil = NoHil
    /\ last_call = NoCall
    /\ NoGalaxy

\* the tree and the panic flag after a call that returned r
CallReturns(r) ==
    IF r.panic \/ (overflow_checks /\ r.overflow)
    THEN /\ panicked' = TRUE
         /\ UNCHANGED <<items, internal, nodes>>
    ELSE /\ panicked' = FALSE
         /\ items' = r.tree.items
         /\ internal' = r.tree.internal
         /\ nodes' = r.tree.nodes

\* the descent of the call stayed on the coordinate grid
OnGrid(r) == ~r.off_grid

\* the Internal nodes created since the last aggregation pass, once the add
\* that returned r has created its own
CreatedSince(r) ==
    last_call.created
    \cup { k \in DOMAIN r.tree.nodes :
             /\ is_internal(r.tree.nodes[k])
             /\ ~(has_node(Tree, k) /\ is_internal(nodes[k])) }

\* Quadtree::add(item) of one of stars to a tree of fewer than most stars,
\* the last call being one of ops
AddWhen(ops, most, stars) ==
    /\ ~panicked
    /\ last_call.op \in ops
    /\ Len(items) < most
    /\ \E item \in stars :
          /\ OnGrid(add(Tree, item))
          /\ CallReturns(add(Tree, item))
          /\ last_call' = [NoCall EXCEPT
                              !.op = "add", !.item = item,
                              !.created = CreatedSince(add(Tree, item))]
    /\ UNCHANGED <<min, max, overflow_checks, hil>>
    /\ UNCHANGED galaxy_vars

\* Quadtree::add(item); anything but "none" and "add" as the last call
\* means the tree has been aggregated, and Galaxy::update adds no star to an
\* aggregated tree
Add == AddWhen({"none", "add"}, MaxItems, Stars)

\* Galaxy::update_mass_distribution(&mut quadtree)
UpdateMassDistribution ==
    /\ ~panicked
    /\ last_call.op = "add"
    /\ CallReturns(update_mass_distribution(Tree))
    /\ last_call' = [last_call EXCEPT
                        !.op = "update_mass_distribution",
                        !.created = {},
                        !.written = update_mass_distribution(Tree).written,
                        !.added = update_mass_distribution(Tree).added]
    /\ UNCHANGED <<min, max, overflow_checks, hil>>
    /\ UNCHANGED galaxy_vars

\* Quadtree::new(min, max): Galaxy::update replaces the tree by a fresh one
New ==
    /\ ~panicked
    /\ last_call.op = "update_mass_distribution"
    /\ items' = new(min, max).items
    /\ internal' = new(min, max).internal
    /\ nodes' = new(min, max).nodes
    /\ last_call' = NoCall
    /\ UNCHANGED <<min, max, overflow_checks, panicked, hil>>
    /\ UNCHANGED galaxy_vars

\* Quadtree::walk_indices with a callback that records what it is given; the
\* walk changes nothing in the tree, and it is the last call of a behaviour
WalkIndices ==
    /\ ~panicked
    /\ last_call.op \in {"none", "add"}
    /\ last_call' = [last_call EXCEPT !.op = "walk_indices",
                                      !.walked = walk_indices(Tree)]
    /\ UNCHANGED <<min, max, items, internal, nodes, overflow_checks, panicked,
                   hil>>
    /\ UNCHANGED galaxy_vars

Next == Add \/ UpdateMassDistribution \/ New \/ WalkIndices

Spec == Init /\ [][Next]_vars

---------------------------------------------------------------------------
(* The Hilbert functions applied to bounded inputs *)

\* every cell and every raw index is tried at depths 0..MaxHilbertDepth
MaxHilbertDepth == 4

\* the deepest level from_xy_depth's property test draws (depth % 16)
TestedDepths == 0 .. (MAX_DEPTH - 1)

\* coordinates tried at the depths above MaxHilbertDepth
SampleCoords(d) ==
    { 0, 1, 2^d - 1, 2^d - 2, 2^(d - 1), 2^(d - 1) - 1, (2^d) \div 3 }

\* raw indices tried at the depths above MaxHilbertDepth
SampleIndexes(d) ==
    { 0, 1, 2, 3, 4^d - 1, 4^d - 4, (4^d) \div 2, (4^d) \div 3, 4^(d - 1) + 2 }

HilbertCells ==
    { <<x, y, d>> \in (0 .. 2^MaxHilbertDepth - 1) \X (0 .. 2^MaxHilbertDepth - 1)
                        \X (0 .. MaxHilbertDepth) : x < 2^d /\ y < 2^d }
    \cup UNION { SampleCoords(d) \X SampleCoords(d) \X {d} :
                   d \in (TestedDepths \ (0 .. MaxHilbertDepth)) }

HilbertIndexes ==
    { <<i, d>> \in (0 .. 4^MaxHilbertDepth - 1) \X (0 .. MaxHilbertDepth) : i < 4^d }
    \cup UNION { SampleIndexes(d) \X {d} :
                   d \in (TestedDepths \ (0 .. MaxHilbertDepth)) }

\* root boxes <<min, max>>; every side is a multiple of 2^MAX_DEPTH so that
\* the cells of all tested depths have integer corners
RootBoxes ==
    { << <<0, 0>>, <<2^16, 2^16>> >>,
      << <<-(2^16), -(2^16)>>, <<2^16, 2^16>> >>,
      << <<-(2^17), 2^16>>, <<2^17, 2^18>> >>,
      << <<2^16, 2^17>>, <<-(2^16), 0>> >> }

InitHilbert ==
    /\ \E b \in RootBoxes : min = b[1] /\ max = b[2]
    /\ items = <<>>
    /\ internal = <<>>
    /\ nodes = <<>>
    /\ overflow_checks = TRUE
    /\ panicked = FALSE
    /\ last_call = NoCall
    /\ NoGalaxy
    /\ \/ \E c \in HilbertCells :
             hil = [NoHil EXCEPT !.op = "xy", !.xy = <<c[1], c[2]>>,
                                 !.index = <<0, c[3]>>]
       \/ \E h \in HilbertIndexes :
             hil = [NoHil EXCEPT !.op = "index", !.index = h]

\* test::hilbert_from_xy_to_xy_reversible: from_xy_depth, then to_xy
ApplyFromXYDepth ==
    /\ hil.op = "xy"
    /\ LET h == from_xy_depth(hil.xy, DepthOf(hil.index))
       IN  hil' = [hil EXCEPT !.op = "from_xy_depth", !.out_index = h,
                              !.out_xy = to_xy(h)]
    /\ UNCHANGED <<min, max, items, internal, nodes, overflow_checks, panicked,
                   last_call>>
    /\ UNCHANGED galaxy_vars

\* to_xy, then from_xy_depth at the same depth
ApplyToXY ==
    /\ hil.op = "index"
    /\ LET xy == to_xy(hil.index)
       IN  hil' = [hil EXCEPT !.op = "to_xy", !.out_xy = xy,
                              !.out_index = from_xy_depth(xy, DepthOf(hil.index))]
    /\ UNCHANGED <<min, max, items, internal, nodes, overflow_checks, panicked,
                   last_call>>
    /\ UNCHANGED galaxy_vars

\* test::hilbert_node_bounds: bounds of an index under the root box
ApplyBounds ==
    /\ hil.op = "index"
    /\ hil' = [hil EXCEPT !.op = "bounds", !.box = bounds(hil.index, min, max)]
    /\ UNCHANGED <<min, max, items, internal, nodes, overflow_checks, panicked,
                   last_call>>
    /\ UNCHANGED galaxy_vars

\* children of an index, and the bounds of each
ApplyChildren ==
    /\ hil.op = "index"
    /\ DepthOf(hil.index) + 1 \in TestedDepths
    /\ LET k == children(hil.index)
       IN  hil' = [hil EXCEPT !.op = "children", !.kids = k,
                              !.box = bounds(hil.index, min, max),
                              !.kid_boxes = [i \in 1 .. 4 |-> bounds(k[i], min, max)]]
    /\ UNCHANGED <<min, max, items, internal, nodes, overflow_checks, panicked,
                   last_call>>
    /\ UNCHANGED galaxy_vars

NextHilbert == ApplyFromXYDepth \/ ApplyToXY \/ ApplyBounds \/ ApplyChildren

SpecHilbert == InitHilbert /\ [][NextHilbert]_vars

---------------------------------------------------------------------------
(* The Galaxy driven by the frame loop of src/src/main.rs: Stage::update   *)
(* calls Galaxy::update, Stage::draw calls Galaxy::draw.  pc is the        *)
(* statement of Galaxy::update that runs next, or "draw" between the       *)
(* return of Galaxy::update and the draw of the frame.                     *)

\* the most stars Galaxy::new generates
MaxStars == 3

\* the most calls of Galaxy::update
MaxUpdates == 2

\* the values the time scale slider is set to
TimeScales == {0, INITIAL_TIME_SCALE, 2 * INITIAL_TIME_SCALE}

\* the star Galaxy::new generates at position, distance_from_center and
\* speed being the two square roots it takes, direction is
\* (sin(angle), cos(angle)) for angle = atan2(position.x, position.y) + PI/2
OrbitingStar(position, distance_from_center, speed, mass) ==
    Star(position,
         << Quot(position[2] * speed, distance_from_center),
            Quot((-position[1]) * speed, distance_from_center) >>,
         mass)

\* the black hole Galaxy::new adds first
BlackHole == Star(<<0, 0>>, <<0, 0>>, SUPERMASSIVE_BLACK_HOLE_MASS)

\* the stars Galaxy::new draws from: positions within the radius, and the
\* speed Sqrt(GRAVITATIONAL_CONSTANT * SUPERMASSIVE_BLACK_HOLE_MASS /
\* distance_from_center)
GalaxyStars ==
    { OrbitingStar(<<4, 0>>, 4, 10, 1),
      OrbitingStar(<<0, 4>>, 4, 10, 2),
      OrbitingStar(<<-4, 0>>, 4, 10, 3),
      OrbitingStar(<<1, 0>>, 1, 20, 1),
      OrbitingStar(<<-GALAXY_RADIUS, 0>>, GALAXY_RADIUS, 5, 2) }

\* the sequences of stars Galaxy::new generates, no star twice
StarSequences ==
    { q \in UNION { [1 .. n -> GalaxyStars] : n \in 0 .. MaxStars } :
        \A a, b \in DOMAIN q : a # b => q[a] # q[b] }

\* integrate called before update_mass_distribution
UpdateNextIntegrateFirst(at) ==
    CASE at = "rebuild" -> "integrate"
      [] at = "integrate" -> "update_mass_distribution"
      [] at = "update_mass_distribution" -> "texture_dirty"
      [] OTHER -> "draw"

\* the statement of Galaxy::update that follows the statement at
UpdateNext(at) ==
    CASE at = "rebuild" -> "update_mass_distribution"
      [] at = "update_mass_distribution" -> "integrate"
      [] at = "integrate" -> "texture_dirty"
      [] OTHER -> "draw"

\* an entry of log: what was done, the stars as they were then, and for an
\* acceleration query the point and the regions it read
Event(op, stars, point, visited) ==
    [op |-> op, items |-> stars, point |-> point, visited |-> visited]

\* Galaxy::new
InitGalaxy ==
    /\ min = <<-GALAXY_RADIUS * 2, -GALAXY_RADIUS * 2>>
    /\ max = <<GALAXY_RADIUS * 2, GALAXY_RADIUS * 2>>
    /\ \E q \in StarSequences :
          /\ items = rebuild(<<BlackHole>> \o q).tree.items
          /\ internal = rebuild(<<BlackHole>> \o q).tree.internal
          /\ nodes = rebuild(<<BlackHole>> \o q).tree.nodes
    /\ overflow_checks \in BOOLEAN
    /\ panicked = FALSE
    /\ hil = NoHil
    /\ last_call = NoCall
    /\ texture_dirty = TRUE
    /\ time_scale = INITIAL_TIME_SCALE
    /\ pc = "rebuild"
    /\ integrate_i = 0
    /\ updates = 0
    /\ log = <<>>
    /\ input_state = DefaultInputState
    /\ input_log = <<>>
    /\ camera = CameraNew

\* Stage::update when the next fixed time step is not due yet: Galaxy::update
\* is not called in this frame
StageUpdateNotDue ==
    /\ ~panicked
    /\ pc = "rebuild"
    /\ pc' = "draw"
    /\ UNCHANGED <<min, max, items, internal, nodes, overflow_checks, panicked,
                   hil, last_call, texture_dirty, time_scale, integrate_i,
                   updates, log>>
    /\ UNCHANGED <<input_state, input_log, camera>>

\* the world points window_to_world gives for the mouse position: the
\* camera position, the zoom level and the mouse position are combined in
\* f64, and the mouse can be over any point of the view
WorldPoints == { <<-4, 0>>, <<4, 0>> }

\* Galaxy::update up to the end of the rebuild: update_camera is given the
\* input state, then the time scale slider, then a new quadtree to which
\* every star is added
UpdateRebuild ==
    /\ ~panicked
    /\ pc = "rebuild"
    /\ updates < MaxUpdates
    /\ \E mouse_pos_world \in WorldPoints :
          camera' = update_camera(camera, Tree, input_state, mouse_pos_world)
    /\ IF LockedStarMissing(camera', Tree)
       THEN /\ panicked' = TRUE
            /\ UNCHANGED <<items, internal, nodes, time_scale, log, updates,
                           pc, input_log>>
       ELSE /\ OnGrid(rebuild(items))
            /\ \E scale \in TimeScales : time_scale' = scale
            /\ CallReturns(rebuild(items))
            /\ log' = <<Event("rebuild", items', <<0, 0>>, {})>>
            /\ updates' = updates + 1
            /\ pc' = UpdateNext(pc)
            /\ input_log' = Append(input_log,
                                   [op |-> "update",
                                    mouse_wheel_dy |-> input_state.mouse_wheel_dy,
                                    mouse_diff |-> input_state.mouse_diff])
    /\ UNCHANGED <<min, max, overflow_checks, hil, last_call, texture_dirty,
                   integrate_i>>
    /\ UNCHANGED input_state

\* Self::update_mass_distribution(&mut self.quadtree)
UpdateAggregate ==
    /\ ~panicked
    /\ pc = "update_mass_distribution"
    /\ CallReturns(update_mass_distribution(Tree))
    /\ log' = Append(log, Event("update_mass_distribution", items', <<0, 0>>, {}))
    /\ pc' = UpdateNext(pc)
    /\ UNCHANGED <<min, max, overflow_checks, hil, last_call, texture_dirty,
                   time_scale, integrate_i, updates>>
    /\ UNCHANGED <<input_state, input_log, camera>>

\* self.integrate(time_delta) is entered: the loop starts at 1
IntegrateEnter ==
    /\ ~panicked
    /\ pc = "integrate"
    /\ integrate_i = 0
    /\ integrate_i' = 1
    /\ UNCHANGED <<min, max, items, internal, nodes, overflow_checks, panicked,
                   hil, last_call, texture_dirty, time_scale, pc, updates, log>>
    /\ UNCHANGED <<input_state, input_log, camera>>

\* the pass updates the star before the one it queried for, as a loop over
\* 0..len would
IntegrateWithFromZero(acc) ==
    IF acc.panic
    THEN /\ panicked' = TRUE
         /\ UNCHANGED <<items, integrate_i, log>>
    ELSE /\ panicked' = FALSE
         /\ items' = [items EXCEPT ![integrate_i] =
                         integrate_star(@, acc.force, time_scale, FIXED_TIMESTEP)]
         /\ integrate_i' = integrate_i + 1
         /\ log' = Append(log, Event("acceleration_at_point", items,
                                     items[integrate_i + 1].position,
                                     acc.visited))

\* the outcome of one pass of the loop of Galaxy::integrate in which the
\* query returned acc
IntegrateWith(acc) ==
    IF acc.panic
    THEN /\ panicked' = TRUE
         /\ UNCHANGED <<items, integrate_i, log>>
    ELSE /\ panicked' = FALSE
         /\ items' = [items EXCEPT ![integrate_i + 1] =
                         integrate_star(@, acc.force, time_scale, FIXED_TIMESTEP)]
         /\ integrate_i' = integrate_i + 1
         /\ log' = Append(log, Event("acceleration_at_point", items,
                                     items[integrate_i + 1].position,
                                     acc.visited))

\* one pass of the loop of Galaxy::integrate: the acceleration at star i is
\* queried, then the star's velocity and position are updated
IntegrateStar ==
    /\ ~panicked
    /\ pc = "integrate"
    /\ integrate_i >= 1
    /\ integrate_i < Len(items)
    /\ IntegrateWith(acceleration_at_point(Tree, items[integrate_i + 1].position))
    /\ UNCHANGED <<min, max, internal, nodes, overflow_checks, hil, last_call,
                   texture_dirty, time_scale, pc, updates>>
    /\ UNCHANGED <<input_state, input_log, camera>>

\* Galaxy::integrate returns
IntegrateReturn ==
    /\ ~panicked
    /\ pc = "integrate"
    /\ integrate_i >= 1
    /\ integrate_i >= Len(items)
    /\ integrate_i' = 0
    /\ log' = Append(log, Event("integrate", items, <<0, 0>>, {}))
    /\ pc' = UpdateNext(pc)
    /\ UNCHANGED <<min, max, items, internal, nodes, overflow_checks, panicked,
                   hil, last_call, texture_dirty, time_scale, updates>>
    /\ UNCHANGED <<input_state, input_log, camera>>

\* self.texture_dirty = true, Galaxy::update returns, and Stage::update
\* clears the relative movements of the input state
UpdateTextureDirty ==
    /\ ~panicked
    /\ pc = "texture_dirty"
    /\ texture_dirty' = TRUE
    /\ log' = Append(log, Event("texture_dirty", items, <<0, 0>>, {}))
    /\ pc' = UpdateNext(pc)
    /\ UNCHANGED <<min, max, items, internal, nodes, overflow_checks, panicked,
                   hil, last_call, time_scale, integrate_i, updates>>
    /\ input_state' = [input_state EXCEPT !.mouse_diff = <<0, 0>>,
                                          !.mouse_wheel_dy = 0]
    /\ UNCHANGED <<input_log, camera>>

\* Galaxy::draw: update_texture clears the flag, and the next frame begins
Draw ==
    /\ ~panicked
    /\ pc = "draw"
    /\ texture_dirty' = FALSE
    /\ pc' = "rebuild"
    /\ UNCHANGED <<min, max, items, internal, nodes, overflow_checks, panicked,
                   hil, last_call, time_scale, integrate_i, updates, log>>
    /\ UNCHANGED <<input_state, input_log, camera>>

NextGalaxy ==
    \/ StageUpdateNotDue
    \/ UpdateRebuild
    \/ UpdateAggregate
    \/ IntegrateEnter
    \/ IntegrateStar
    \/ IntegrateReturn
    \/ UpdateTextureDirty
    \/ Draw

SpecGalaxy == InitGalaxy /\ [][NextGalaxy]_vars

---------------------------------------------------------------------------
(* Claims about the Hilbert index, checked under SpecHilbert *)

\* C3: from_xy_depth and to_xy are mutual inverses at every tested depth:
\* to_xy(from_xy_depth((x, y), d)) = (x, y) for every cell with x, y < 2^d,
\* and from_xy_depth(to_xy(HilbertIndex(i, d)), d) = HilbertIndex(i, d) for
\* every raw index i < 4^d.
HilbertRoundTrip ==
    /\ hil.op = "from_xy_depth" =>
          /\ hil.out_xy = hil.xy
          /\ DepthOf(hil.out_index) = DepthOf(hil.index)
    /\ hil.op = "to_xy" => hil.out_index = hil.index

\* C3 witness: a cell of the deepest tested level has been converted there
\* and back
HilbertRoundTripWitness ==
    /\ hil.op = "from_xy_depth"
    /\ DepthOf(hil.index) = MAX_DEPTH - 1
    /\ hil.xy = <<2^(MAX_DEPTH - 1) - 1, 2^(MAX_DEPTH - 2)>>
    /\ hil.out_xy = hil.xy
    /\ IndexOf(hil.out_index) > 3

\* C19: from_xy_depth maps the depth-1 cells (0,0), (0,1), (1,1), (1,0) to the
\* raw indices 0, 1, 2, 3, the sixteen depth-2 cells (0,0), (1,0), (1,1),
\* (0,1), (0,2), (0,3), (1,3), (1,2), (2,2), (2,3), (3,3), (3,2), (3,1),
\* (2,1), (2,0), (3,0) to the raw indices 0..15 in that order, and the cell
\* (0,0) to the raw index 0 at every depth.
HilbertManualVectors ==
    LET depth1 == << <<0, 0>>, <<0, 1>>, <<1, 1>>, <<1, 0>> >>
        depth2 == << <<0, 0>>, <<1, 0>>, <<1, 1>>, <<0, 1>>,
                     <<0, 2>>, <<0, 3>>, <<1, 3>>, <<1, 2>>,
                     <<2, 2>>, <<2, 3>>, <<3, 3>>, <<3, 2>>,
                     <<3, 1>>, <<2, 1>>, <<2, 0>>, <<3, 0>> >>
    IN  hil.op = "from_xy_depth" =>
          /\ \A i \in 1 .. 4 :
                (DepthOf(hil.index) = 1 /\ hil.xy = depth1[i])
                    => hil.out_index = HilbertIndex(i - 1, 1)
          /\ \A i \in 1 .. 16 :
                (DepthOf(hil.index) = 2 /\ hil.xy = depth2[i])
                    => hil.out_index = HilbertIndex(i - 1, 2)
          /\ hil.xy = <<0, 0>>
                => hil.out_index = HilbertIndex(0, DepthOf(hil.index))

\* C19 witness: from_xy_depth has been applied to the depth-2 cell (3,1),
\* the thirteenth of the curve
HilbertManualVectorsWitness ==
    /\ hil.op = "from_xy_depth"
    /\ hil.xy = <<3, 1>>
    /\ hil.out_index = HilbertIndex(12, 2)

\* the four equal quadrants of a box <<lo, hi>>
QuadrantsOf(box) ==
    LET hw == (box[2][1] - box[1][1]) \div 2
        hh == (box[2][2] - box[1][2]) \div 2
    IN  { << <<box[1][1] + a * hw, box[1][2] + b * hh>>,
             <<box[1][1] + (a + 1) * hw, box[1][2] + (b + 1) * hh>> >> :
          <<a, b>> \in {0, 1} \X {0, 1} }

\* C4: the root index has the root box as its bounds; the children of an
\* index p are the raw indices 4 * p.index + 0..3 one level down, their
\* bounds are exactly the four equal quadrants of p's bounds, pairwise
\* different, and their grid cells are (2x + a, 2y + b) for (x, y) = p.to_xy().
HilbertChildrenBounds ==
    /\ (hil.op = "bounds" /\ hil.index = HilbertIndex(0, 0)) =>
          hil.box = <<min, max>>
    /\ hil.op = "children" =>
          LET p  == hil.index
              xy == to_xy(p)
          IN  /\ \A i \in 1 .. 4 :
                    hil.kids[i] = HilbertIndex(4 * IndexOf(p) + (i - 1), DepthOf(p) + 1)
              /\ { hil.kid_boxes[i] : i \in 1 .. 4 } = QuadrantsOf(hil.box)
              /\ Cardinality({ hil.kid_boxes[i] : i \in 1 .. 4 }) = 4
              /\ { to_xy(hil.kids[i]) : i \in 1 .. 4 }
                    = { <<2 * xy[1] + a, 2 * xy[2] + b>> :
                        <<a, b>> \in {0, 1} \X {0, 1} }

\* C4 witness: the children of a level-14 index away from the origin have
\* been computed, under a root box that is not the unit square
HilbertChildrenBoundsWitness ==
    /\ hil.op = "children"
    /\ DepthOf(hil.index) = MAX_DEPTH - 2
    /\ IndexOf(hil.index) = 4^(MAX_DEPTH - 2) - 4
    /\ min = <<-(2^17), 2^16>>
    /\ Len(hil.kid_boxes) = 4
    /\ hil.kid_boxes[1] \in QuadrantsOf(hil.box)

---------------------------------------------------------------------------
(* Claims about the quadtree and the mass distribution, checked under Spec *)

\* the indices of the Leaf nodes and of the Internal nodes of the tree
Leaves == { k \in DOMAIN nodes : is_leaf(nodes[k]) }
Internals == { k \in DOMAIN nodes : is_internal(nodes[k]) }

\* the u32 a shifted right by k bits, 0 <= k
U32Shr(a, k) ==
    IF k < 16 THEN ShiftRight(a, k)
    ELSE IF k < 32 THEN Hi(a) \div 2^(k - 16)
    ELSE 0

\* the low 32 - k bits of the u32 a, 0 <= k
U32Low(a, k) ==
    IF k >= 32 THEN 0
    ELSE IF k >= 16 THEN Lo(a) % 2^(32 - k)
    ELSE FromLimbs(Hi(a) % 2^(16 - k), Lo(a))

\* index k is reached from index n by taking children() one or more times
Below(k, n) ==
    /\ DepthOf(k) > DepthOf(n)
    /\ U32Shr(IndexOf(k), 2 * (DepthOf(k) - DepthOf(n)))
          = U32Low(IndexOf(n), 2 * (DepthOf(k) - DepthOf(n)))

\* the bodies (indices into items) held in the leaves below the node n
BodiesBelow(n) == { nodes[k].index : k \in { l \in Leaves : Below(l, n) } }

\* the sum of the masses, and of mass * coordinate c, of a set of bodies
RECURSIVE SumMass(_)
SumMass(S) ==
    IF S = {} THEN 0
    ELSE LET i == CHOOSE j \in S : TRUE
         IN  items[i + 1].mass + SumMass(S \ {i})

RECURSIVE SumMoment(_, _)
SumMoment(S, c) ==
    IF S = {} THEN 0
    ELSE LET i == CHOOSE j \in S : TRUE
         IN  items[i + 1].mass * items[i + 1].position[c] + SumMoment(S \ {i}, c)

\* the positions of the stars of the tree are pairwise distinct
DistinctPositions ==
    \A i, j \in 1 .. Len(items) :
        i # j => items[i].position # items[j].position

\* every node of the tree is above the level at which from_xy_depth leaves
\* the u32 range
WithinU32Depth == \A k \in DOMAIN nodes : DepthOf(k) <= MAX_DEPTH

\* the call that just returned is update_mass_distribution
Aggregated == ~panicked /\ last_call.op = "update_mass_distribution"

\* C1: after any sequence of add calls with pairwise distinct positions
\* inside the bounds, in any order, every star is referenced by exactly one
\* Leaf node.
EveryStarInOneLeaf ==
    (~panicked /\ DistinctPositions) =>
        \A i \in 1 .. Len(items) :
            Cardinality({ k \in Leaves : nodes[k].index = i - 1 }) = 1

\* C2: after any sequence of add calls no two distinct Leaf nodes reference
\* the same star, and no two distinct Leaf nodes reference stars with the
\* same position.
NoTwoLeavesShare ==
    ~panicked =>
        \A k, l \in Leaves :
            k # l => /\ nodes[k].index # nodes[l].index
                     /\ get_item(Tree, nodes[k].index).position
                           # get_item(Tree, nodes[l].index).position

\* C5: after update_mass_distribution on a tree whose root is an Internal
\* node, the mass stored in the root's region is the sum of the masses of
\* all stars referenced by Leaf nodes.
RootMassIsTotal ==
    (Aggregated /\ HilbertIndex(0, 0) \in Internals) =>
        LET region == get_internal(Tree, nodes[HilbertIndex(0, 0)].index)
        IN  /\ region.is_some
            /\ region.mass = SumMass({ nodes[k].index : k \in Leaves })

\* C6: after update_mass_distribution, for every Internal node the region
\* read through the node's handle has the mass of the stars in the leaves
\* of the node's subtree.
EveryRegionMassIsSubtreeMass ==
    Aggregated =>
        \A n \in Internals :
            LET region == get_internal(Tree, nodes[n].index)
            IN  /\ region.is_some
                /\ region.mass = SumMass(BodiesBelow(n))

\* C7: after update_mass_distribution, the center of mass stored for an
\* Internal node is the mass-weighted average of the positions of the stars
\* below it: center_of_mass * mass = sum of mass * position (the stored
\* center of mass is com / den).
CenterOfMassIsWeighted ==
    Aggregated =>
        \A n \in Internals :
            LET region == get_internal(Tree, nodes[n].index)
            IN  /\ region.is_some
                /\ \A c \in 1 .. 2 :
                      region.com[c] * region.mass
                         = region.den * SumMoment(BodiesBelow(n), c)

---------------------------------------------------------------------------
(* Claims about Galaxy::update, checked under SpecGalaxy *)

\* the reads of regions made by the acceleration queries of the running
\* Galaxy::update
Visits == UNION { log[k].visited : k \in DOMAIN log }

\* s / d < 1 for s = GALAXY_DIAMETER / 2^depth, the side length the query
\* computes, and d = Sqrt(dist_squared_den) / den
SideOverDistBelowOne(depth, dist_squared_den, den) ==
    IF 2^depth <= GALAXY_DIAMETER
    THEN (GALAXY_DIAMETER \div 2^depth) * (GALAXY_DIAMETER \div 2^depth)
            * den * den < dist_squared_den
    ELSE den * den
            < dist_squared_den * (2^depth \div GALAXY_DIAMETER)
                               * (2^depth \div GALAXY_DIAMETER)

\* C8: an Internal node whose center of mass is at distance d > 0 from the
\* query point is taken as one point mass exactly when s / d < 1, and is
\* recursed into when s / d >= 1, s being the node's side length.
PointMassExactlyWhenFar ==
    \A v \in Visits :
        RegionDistSquared(v.region, v.point) > 0 =>
            (v.point_mass <=>
                SideOverDistBelowOne(DepthOf(v.index),
                                     RegionDistSquared(v.region, v.point),
                                     v.region.den))

\* the positions of a list of stars
Positions(stars) == [k \in DOMAIN stars |-> stars[k].position]

\* C9: every acceleration query of integrate is made with every star where
\* it was when the aggregation pass of the same update ran: no star's
\* position changes between the aggregation and a later query.
QueriesSeeAggregatedPositions ==
    \A k \in DOMAIN log :
        log[k].op = "acceleration_at_point" =>
            \E j \in 1 .. (k - 1) :
                /\ log[j].op = "update_mass_distribution"
                /\ Positions(log[k].items) = Positions(log[j].items)

\* C10: Galaxy::update rebuilds the quadtree, then aggregates, then
\* integrates, each exactly once and in this order; no acceleration query is
\* made before the aggregation, and texture_dirty is set only after
\* integrate has returned.
UpdateRunsInOrder ==
    /\ \A k \in DOMAIN log :
          /\ (log[k].op = "rebuild") <=> (k = 1)
          /\ (log[k].op = "update_mass_distribution") <=> (k = 2)
          /\ log[k].op = "acceleration_at_point" =>
                \A j \in 3 .. (k - 1) : log[j].op = "acceleration_at_point"
          /\ log[k].op = "integrate" =>
                /\ k > 2
                /\ \A j \in 3 .. (k - 1) : log[j].op = "acceleration_at_point"
          /\ log[k].op = "texture_dirty" =>
                /\ k = Len(log)
                /\ k > 3
                /\ log[k - 1].op = "integrate"
    /\ (~panicked /\ pc \in {"rebuild", "draw"} /\ log # <<>>) =>
          log[Len(log)].op = "texture_dirty"
    /\ (updates > 1 /\ log[Len(log)].op # "texture_dirty") => ~texture_dirty

\* C10 witness: the second Galaxy::update has returned after integrating
\* two stars, one of which has moved, and the result is flagged
UpdateRunsInOrderWitness ==
    /\ pc = "draw"
    /\ updates = 2
    /\ texture_dirty
    /\ Len(log) = 6
    /\ log[Len(log)].op = "texture_dirty"
    /\ Positions(log[2].items) # Positions(items)

---------------------------------------------------------------------------
(* Claims about single calls of Quadtree::add, checked under Spec *)

\* C11: when add is called with a star whose position is that of a star
\* already held in a Leaf, only the newer star is dropped: the call returns
\* normally and the tree still has a Leaf referencing the earlier star.
CollisionKeepsEarlierStar ==
    [][(last_call'.op = "add" /\ ~panicked') =>
          \A k \in Leaves :
              get_item(Tree, nodes[k].index).position = last_call'.item.position
                  => \E l \in DOMAIN nodes' : nodes'[l] = Leaf(nodes[k].index)]_vars

\* C12: add of a star whose position lies outside [min, max] on either axis
\* changes nothing and raises no error: nodes, items and internal are what
\* they were before the call.
OutOfBoundsAddChangesNothing ==
    [][(/\ last_call'.op = "add"
        /\ \/ last_call'.item.position[1] < min[1]
           \/ last_call'.item.position[1] > max[1]
           \/ last_call'.item.position[2] < min[2]
           \/ last_call'.item.position[2] > max[2])
          => /\ nodes' = nodes
             /\ items' = items
             /\ internal' = internal
             /\ ~panicked']_vars

\* C12 witness: add has returned from a star below min.y, offered to a tree
\* that holds three stars below an Internal root
OutOfBoundsAddChangesNothingWitness ==
    /\ last_call.op = "add"
    /\ last_call.item.position[2] < min[2]
    /\ ~panicked
    /\ Len(items) = 3
    /\ HilbertIndex(0, 0) \in Internals
    /\ Cardinality(Leaves) = 3

\* C18: after every add call every Internal node of the tree has at least one
\* of its four children, the indices 4 * index + 0..3 one level down, present
\* in the tree.
InternalHasAChild ==
    (last_call.op = "add" /\ ~panicked) =>
        \A n \in Internals :
            \E a \in 1 .. 4 : has_node(Tree, children(n)[a])

\* C15: for every tree built by add calls, the empty tree included, the
\* indices walk_indices passes to its callback are exactly the indices that
\* have a node, each once, and each after the index of its parent.
WalkVisitsEveryNodeOnce ==
    last_call.op = "walk_indices" =>
        /\ { last_call.walked[i] : i \in DOMAIN last_call.walked } = DOMAIN nodes
        /\ \A i, j \in DOMAIN last_call.walked :
              i # j => last_call.walked[i] # last_call.walked[j]
        /\ \A i \in DOMAIN last_call.walked :
              DepthOf(last_call.walked[i]) > 0 =>
                  \E j \in 1 .. (i - 1) :
                      last_call.walked[j] =
                          HilbertIndex(IndexOf(last_call.walked[i]) \div 4,
                                       DepthOf(last_call.walked[i]) - 1)

---------------------------------------------------------------------------
(* Quadtree::new called with bounded corners *)

\* the coordinates the corners of the requested box are drawn from
NewCorners == { -HalfWidth, -1, 0, HalfWidth }

\* Quadtree::new(mn, mx); what the caller holds afterwards is the value of an
\* Ok result, and the tree it held before when the result is an error
QuadtreeNew ==
    /\ \E x0 \in NewCorners, y0 \in NewCorners, x1 \in NewCorners, y1 \in NewCorners :
          LET r == NewResult(<<x0, y0>>, <<x1, y1>>)
          IN  /\ last_call' = [NoCall EXCEPT !.op = "new", !.is_ok = r.is_ok]
              /\ IF r.is_ok
                 THEN /\ min' = r.value.min
                      /\ max' = r.value.max
                      /\ items' = r.value.items
                      /\ internal' = r.value.internal
                      /\ nodes' = r.value.nodes
                 ELSE UNCHANGED <<min, max, items, internal, nodes>>
    /\ UNCHANGED <<overflow_checks, panicked, hil>>
    /\ UNCHANGED galaxy_vars

SpecNew == Init /\ [][QuadtreeNew]_vars

\* C13: Quadtree::new returns a failure result whenever min is not strictly
\* less than max on both axes; the caller never holds a tree over a box with
\* min.x >= max.x or min.y >= max.y.
NewFailsOnDegenerateBox ==
    (last_call.op = "new" /\ (min[1] >= max[1] \/ min[2] >= max[2]))
        => ~last_call.is_ok

---------------------------------------------------------------------------
(* Claims about a simulation step, checked under SpecGalaxy *)

\* C14: no simulation step removes a star: no statement of Galaxy::update
\* changes the length of the flat list of stars, and the rebuild of the
\* quadtree leaves the list as it was, the same stars at the same indices,
\* wherever the stars have moved.
UpdateKeepsEveryStar ==
    [][~panicked' =>
          /\ Len(items') = Len(items)
          /\ (pc = "rebuild" /\ pc' = UpdateNext(pc)) => items' = items]_vars

---------------------------------------------------------------------------
(* One simulation step of two bodies *)

\* a Galaxy of two bodies of equal mass at (-1,0) and (1,0), at rest. The
\* accelerations depend on GRAVITATIONAL_CONSTANT * mass only; that product
\* is 4 here, so that the pairwise acceleration over the distance 2 is the
\* whole number 1.
InitTwoBody ==
    /\ min = <<-GALAXY_RADIUS * 2, -GALAXY_RADIUS * 2>>
    /\ max = <<GALAXY_RADIUS * 2, GALAXY_RADIUS * 2>>
    /\ \E q \in {<< Star(<<-1, 0>>, <<0, 0>>, 4), Star(<<1, 0>>, <<0, 0>>, 4) >>} :
          /\ items = rebuild(q).tree.items
          /\ internal = rebuild(q).tree.internal
          /\ nodes = rebuild(q).tree.nodes
    /\ overflow_checks \in BOOLEAN
    /\ panicked = FALSE
    /\ hil = NoHil
    /\ last_call = NoCall
    /\ texture_dirty = TRUE
    /\ time_scale = INITIAL_TIME_SCALE
    /\ pc = "rebuild"
    /\ integrate_i = 0
    /\ updates = 0
    /\ log = <<>>
    /\ input_state = DefaultInputState
    /\ input_log = <<>>
    /\ camera = CameraNew

SpecTwoBody == InitTwoBody /\ [][NextGalaxy]_vars

\* C16: two bodies of equal mass at (-1,0) and (1,0), at rest: when the
\* integration of the first simulation step with a positive time scale has
\* returned, each body's velocity points at the other body and its magnitude
\* is the pairwise acceleration G * mass / 2^2 times the step's time factor
\* time_scale * FIXED_TIMESTEP.
TwoBodyStepIsExact ==
    (updates = 1 /\ pc = "texture_dirty" /\ time_scale > 0 /\ ~panicked) =>
        /\ Len(items) = 2
        /\ items[1].velocity[2] = 0
        /\ items[2].velocity[2] = 0
        /\ items[1].velocity[1] > 0
        /\ items[2].velocity[1] < 0
        /\ 4 * items[1].velocity[1] =
              GRAVITATIONAL_CONSTANT * items[2].mass * time_scale * FIXED_TIMESTEP
        /\ 4 * (-items[2].velocity[1]) =
              GRAVITATIONAL_CONSTANT * items[1].mass * time_scale * FIXED_TIMESTEP

---------------------------------------------------------------------------
(* Acceleration queries on trees that are not, or not wholly, aggregated *)

\* the most stars of a tree that is queried
MaxQueryItems == 3

\* the empty quadtree of Galaxy::new, before the black hole is added
InitQuery ==
    /\ min = <<-GALAXY_RADIUS * 2, -GALAXY_RADIUS * 2>>
    /\ max = <<GALAXY_RADIUS * 2, GALAXY_RADIUS * 2>>
    /\ items = new(min, max).items
    /\ internal = new(min, max).internal
    /\ nodes = new(min, max).nodes
    /\ overflow_checks \in BOOLEAN
    /\ panicked = FALSE
    /\ hil = NoHil
    /\ last_call = NoCall
    /\ NoGalaxy

\* Quadtree::add(item), also to a tree that has been aggregated
AddToAggregated ==
    AddWhen({"none", "add", "update_mass_distribution"}, MaxQueryItems,
            GalaxyStars \cup {BlackHole})

\* Galaxy::acceleration_at_point(&quadtree, point) at the position of a star;
\* the query changes nothing in the tree, and it is the last call of a
\* behaviour
AccelerationAtPoint ==
    /\ ~panicked
    /\ last_call.op \in {"add", "update_mass_distribution"}
    /\ \E star \in GalaxyStars \cup {BlackHole} :
          /\ panicked' = acceleration_at_point(Tree, star.position).panic
          /\ last_call' = [last_call EXCEPT
                              !.op = "acceleration_at_point", !.item = star,
                              !.acc = acceleration_at_point(Tree, star.position)]
    /\ UNCHANGED <<min, max, items, internal, nodes, overflow_checks, hil>>
    /\ UNCHANGED galaxy_vars

SpecQuery ==
    InitQuery
    /\ [][AddToAggregated \/ UpdateMassDistribution \/ AccelerationAtPoint]_vars

---------------------------------------------------------------------------
(* Mouse events between the frames of the simulation *)

\* the most mouse events delivered
MaxEvents == 2

\* the number of mouse events delivered so far
EventsDelivered ==
    Cardinality({ e \in DOMAIN input_log : input_log[e].op # "update" })

\* Stage::mouse_wheel_event(_x, y); events are delivered between the frames
\* and between Stage::update and Stage::draw. The n-th event of a behaviour
\* delivers a delta of magnitude 10^n, so that a sum of deltas tells which
\* deltas it is made of.
MouseWheelEvent ==
    /\ ~panicked
    /\ pc \in {"rebuild", "draw"}
    /\ EventsDelivered < MaxEvents
    /\ \E y \in {10^EventsDelivered, -(10^EventsDelivered)} :
          /\ input_state' = mouse_wheel_event(input_state, y)
          /\ input_log' = Append(input_log,
                                 [op |-> "mouse_wheel_event",
                                  mouse_wheel_dy |-> y,
                                  mouse_diff |-> <<0, 0>>])
    /\ UNCHANGED <<min, max, items, internal, nodes, overflow_checks, panicked,
                   hil, last_call, texture_dirty, time_scale, pc, integrate_i,
                   updates, log, camera>>

\* Stage::mouse_motion_event(x, y)
MouseMotionEvent ==
    /\ ~panicked
    /\ pc \in {"rebuild", "draw"}
    /\ EventsDelivered < MaxEvents
    /\ \E d \in { <<10^EventsDelivered, 0>>,
                  <<-(10^EventsDelivered), 10^EventsDelivered>> } :
          /\ input_state' =
                mouse_motion_event(input_state, input_state.mouse_pos[1] + d[1],
                                   input_state.mouse_pos[2] + d[2])
          /\ input_log' = Append(input_log,
                                 [op |-> "mouse_motion_event",
                                  mouse_wheel_dy |-> 0,
                                  mouse_diff |-> d])
    /\ UNCHANGED <<min, max, items, internal, nodes, overflow_checks, panicked,
                   hil, last_call, texture_dirty, time_scale, pc, integrate_i,
                   updates, log, camera>>

SpecInput ==
    InitTwoBody /\ [][NextGalaxy \/ MouseWheelEvent \/ MouseMotionEvent]_vars

\* the sum of the deltas of the first n entries of an input log whose op is
\* in ops, as <<mouse_wheel_dy, mouse_diff.x, mouse_diff.y>>
RECURSIVE DeltaSum(_, _, _)
DeltaSum(entries, ops, n) ==
    IF n = 0 THEN <<0, 0, 0>>
    ELSE IF entries[n].op \in ops
    THEN << DeltaSum(entries, ops, n - 1)[1] + entries[n].mouse_wheel_dy,
            DeltaSum(entries, ops, n - 1)[2] + entries[n].mouse_diff[1],
            DeltaSum(entries, ops, n - 1)[3] + entries[n].mouse_diff[2] >>
    ELSE DeltaSum(entries, ops, n - 1)

\* C20: mouse-wheel and mouse-movement deltas accumulate in the input state
\* and are zeroed only after a simulation step has been given them. Between
\* two Stage::update calls the deltas delivered so far are those the
\* Galaxy::update calls have been given plus those still accumulated, every
\* delta counted once; and a Stage::update that runs no simulation step
\* leaves the input state as it was.
DeltasConsumedOnce ==
    [][/\ pc' \in {"rebuild", "draw"} =>
             DeltaSum(input_log', {"mouse_wheel_event", "mouse_motion_event"},
                      Len(input_log'))
                 = << DeltaSum(input_log', {"update"}, Len(input_log'))[1]
                          + input_state'.mouse_wheel_dy,
                      DeltaSum(input_log', {"update"}, Len(input_log'))[2]
                          + input_state'.mouse_diff[1],
                      DeltaSum(input_log', {"update"}, Len(input_log'))[3]
                          + input_state'.mouse_diff[2] >>
       /\ (pc = "rebuild" /\ pc' = "draw") => input_state' = input_state]_vars

\* C20 witness: a simulation step has been given a wheel delta accumulated
\* from two events, a later frame ran no step, and the deltas have been
\* zeroed since the step
DeltasConsumedOnceWitness ==
    /\ pc = "draw"
    /\ updates = 1
    /\ texture_dirty = FALSE
    /\ input_state.mouse_wheel_dy = 0
    /\ input_state.mouse_diff = <<0, 0>>
    /\ \E i \in DOMAIN input_log :
          /\ input_log[i].op = "update"
          /\ input_log[i].mouse_wheel_dy \in {11, 9, -9, -11}

---------------------------------------------------------------------------
(* Quadtree::add with the loop of split_and_insert taken one pass per step  *)

\* the most stars passed to add
MaxLoopItems == 2

\* the boxes of the trees: a single point, which Quadtree::new accepts, and
\* the box of Spec
LoopBoxes ==
    { << <<0, 0>>, <<0, 0>> >>,
      << <<-HalfWidth, -HalfWidth>>, <<HalfWidth, HalfWidth>> >> }

InitLoop ==
    /\ \E box \in LoopBoxes : min = box[1] /\ max = box[2]
    /\ items = new(min, max).items
    /\ internal = new(min, max).internal
    /\ nodes = new(min, max).nodes
    /\ overflow_checks \in BOOLEAN
    /\ panicked = FALSE
    /\ hil = NoHil
    /\ last_call = NoCall
    /\ NoGalaxy

\* the call of add(item) has come to state st: it has returned, panicked,
\* left the grid of the model, or is inside the loop
LoopReaches(st, item) ==
    /\ CallReturns(st)
    /\ last_call' = [NoCall EXCEPT
                        !.op = "add", !.item = item,
                        !.loop = LoopOf(st, /\ ~st.done
                                            /\ ~st.off_grid
                                            /\ ~(overflow_checks /\ st.overflow))]
    /\ UNCHANGED <<min, max, overflow_checks, hil>>
    /\ UNCHANGED galaxy_vars

\* Quadtree::add(item) is called and runs up to the loop of
\* split_and_insert, or returns without entering it
AddBegin ==
    /\ ~panicked
    /\ ~last_call.loop.running
    /\ ~last_call.loop.off_grid
    /\ Len(items) < MaxLoopItems
    /\ \E item \in LoopStars :
          \E st \in {add_enter(Tree, item)} : LoopReaches(st, item)

\* the state of the call that is inside the loop
LoopState ==
    [Returned(Tree, FALSE, FALSE, FALSE) EXCEPT
        !.done = FALSE,
        !.insert_pos = last_call.loop.insert_pos, !.xy = last_call.loop.xy,
        !.node_min = last_call.loop.node_min,
        !.node_max = last_call.loop.node_max,
        !.a = last_call.loop.a, !.b = last_call.loop.b,
        !.a_xy = last_call.loop.a_xy, !.b_xy = last_call.loop.b_xy]

\* one pass of the loop of split_and_insert
SplitIterate ==
    /\ last_call.loop.running
    /\ \E st \in {SplitPass(LoopState)} : LoopReaches(st, last_call.item)

NextLoop == AddBegin \/ SplitIterate

\* the call that is inside the loop goes on running
SpecLoop == InitLoop /\ [][NextLoop]_vars /\ WF_vars(SplitIterate)

\* C21: every call of Quadtree::add returns: once a call is inside the loop
\* of split_and_insert, it leaves the loop, whatever the two positions are
AddCallReturns == last_call.loop.running ~> ~last_call.loop.running

---------------------------------------------------------------------------
(* Claims about the depth of the tree, checked under Spec                  *)

\* C22: every node of a tree built by add has a depth below MAX_DEPTH and
\* a raw index below 4^depth
NodesBelowMaxDepth ==
    \A k \in DOMAIN nodes :
        /\ DepthOf(k) < MAX_DEPTH
        /\ IndexOf(k) >= 0
        /\ IndexOf(k) < 4^DepthOf(k)

---------------------------------------------------------------------------
(* Claims about the order of an aggregation pass, checked under Spec       *)

\* C23: an aggregation pass is post-order: when the region of an Internal
\* node is stored, the region of every Internal node below it has been
\* stored earlier in the pass, and the region a caller reads back for an
\* Internal child is the one the child's own call stored in this pass
AggregationIsPostOrder ==
    last_call.op = "update_mass_distribution" =>
        /\ \A i \in 1 .. Len(last_call.written) :
              \A k \in Internals :
                 Below(k, last_call.written[i].index) =>
                    \E j \in 1 .. (i - 1) : last_call.written[j].index = k
        /\ \A e \in 1 .. Len(last_call.added) :
              \E j \in 1 .. Len(last_call.written) :
                 /\ last_call.written[j].index = last_call.added[e].child
                 /\ last_call.written[j].value = last_call.added[e].value

---------------------------------------------------------------------------
(* Claims about the opening criterion, checked under SpecQuery             *)

\* C24: the side length a query uses for a node at depth k is the width of
\* the node's cell in the tree, (max.x - min.x) / 2^k
NodeSizeIsCellWidth ==
    last_call.op = "acceleration_at_point" =>
        \A v \in last_call.acc.visited :
            NodeSize(DepthOf(v.index))[1] * 2^DepthOf(v.index)
                = (max[1] - min[1]) * NodeSize(DepthOf(v.index))[2]

\* C25: a query adds no contribution computed with a zero distance: an
\* Internal node whose center of mass is the query point is recursed into,
\* and a Leaf whose body is at the query point adds nothing
ZeroDistanceAddsNothing ==
    last_call.op = "acceleration_at_point" =>
        /\ \A p \in last_call.acc.pulls : p.dist # 0 /\ p.diff # <<0, 0>>
        /\ \A v \in last_call.acc.visited :
              RegionDistSquared(v.region, v.point) = 0 => ~v.point_mass
        /\ last_call.acc.force[1] # NaN
        /\ last_call.acc.force[2] # NaN

\* a query at the position of a body of the tree that has read a region
\* whose center of mass is the query point
ZeroDistanceAddsNothingWitness ==
    /\ last_call.op = "acceleration_at_point"
    /\ ~panicked
    /\ \E k \in Leaves : items[nodes[k].index + 1].position
                            = last_call.item.position
    /\ \E v \in last_call.acc.visited :
          v.region.mass > 0 /\ RegionDistSquared(v.region, v.point) = 0
    /\ last_call.acc.pulls # {}

---------------------------------------------------------------------------
(* Claims about Galaxy::integrate, checked under SpecGalaxy *)

\* the star the last pass of the loop of Galaxy::integrate updated, as it
\* was before the pass
IntegratedBefore == log[Len(log)].items[integrate_i]

\* the same star after the pass
IntegratedAfter == items[integrate_i]

\* a pass of the loop of Galaxy::integrate was the last thing done
PassDone ==
    /\ pc = "integrate"
    /\ integrate_i >= 2
    /\ Len(log) > 0
    /\ log[Len(log)].op = "acceleration_at_point"

\* C26: Galaxy::integrate first sets the velocity of a star to velocity +
\* acceleration * time_scale * dt, and then moves the position by the
\* velocity it has just updated, times time_scale * dt, never by the old one
PositionUsesUpdatedVelocity ==
    PassDone =>
        LET acc == acceleration_at_point(Tree, IntegratedBefore.position).force
            step == time_scale * FIXED_TIMESTEP
        IN /\ IntegratedAfter.velocity =
                  << IntegratedBefore.velocity[1] + acc[1] * step,
                     IntegratedBefore.velocity[2] + acc[2] * step >>
           /\ IntegratedAfter.position =
                  << IntegratedBefore.position[1]
                         + IntegratedAfter.velocity[1] * step,
                     IntegratedBefore.position[2]
                         + IntegratedAfter.velocity[2] * step >>

\* a pass has changed the velocity of a star, so that the old and the updated
\* velocity move the position differently
PositionUsesUpdatedVelocityWitness ==
    /\ PassDone
    /\ ~panicked
    /\ time_scale > 0
    /\ IntegratedAfter.velocity # IntegratedBefore.velocity
    /\ IntegratedAfter.position # IntegratedBefore.position

\* Galaxy::integrate has just returned
IntegrateReturned == Len(log) > 0 /\ log[Len(log)].op = "integrate"

\* the k-th body of the list was integrated by the pass logged as entry
\* k + 1 of this step (after the rebuild and the aggregation), and no other
\* body was changed by that pass
IntegratedInPass(k) ==
    LET e == log[k + 1]
        after == log[k + 2].items
    IN /\ e.op = "acceleration_at_point"
       /\ e.point = e.items[k].position
       /\ after[k] = integrate_star(e.items[k],
                                    acceleration_at_point(Tree, e.point).force,
                                    time_scale, FIXED_TIMESTEP)
       /\ \A j \in DOMAIN after : j # k => after[j] = e.items[j]

\* C27: the body at index 0 of the list is always the black hole Galaxy::new
\* added first, with the position and velocity it was created with; when
\* Galaxy::integrate returns, every other body of the list has been
\* integrated once in this step
BlackHoleFixedOthersIntegrated ==
    /\ Len(items) >= 1
    /\ items[1] = BlackHole
    /\ IntegrateReturned =>
          /\ Len(log) = Len(items) + 2
          /\ \A k \in 2 .. Len(items) : IntegratedInPass(k)

\* the second step has integrated two stars or more, with a positive time
\* scale, and a star was moved
BlackHoleFixedOthersIntegratedWitness ==
    /\ IntegrateReturned
    /\ ~panicked
    /\ updates = 2
    /\ time_scale > 0
    /\ Len(items) >= 3
    /\ \E k \in 2 .. Len(items) : items[k] # log[1].items[k]

---------------------------------------------------------------------------
(* Claims about the region handles of the tree, checked under Spec *)

\* C28: no two distinct Internal nodes of the tree hold the same region
\* handle: each Internal node has a slot of the internal-region store of its
\* own
NoSharedRegionHandle ==
    \A a, b \in Internals : a # b => nodes[a].index # nodes[b].index

\* the position of the body the Leaf at index k refers to
LeafPosition(k) == items[nodes[k].index + 1].position

\* pos lies inside the rectangle box = <<min, max>>, edges included
InsideBox(pos, box) ==
    /\ box[1][1] <= pos[1] /\ pos[1] <= box[2][1]
    /\ box[1][2] <= pos[2] /\ pos[2] <= box[2][2]

\* C29: the position of the body of every Leaf lies inside the rectangle
\* bounds(min, max) of the leaf's index, and the descent from the root by
\* the quadrant rule with that position ends at that Leaf
LeafIsWherePositionLeads ==
    ~panicked =>
        \A k \in Leaves :
            /\ InsideBox(LeafPosition(k), bounds(k, min, max))
            /\ find_insert_pos(Tree, LeafPosition(k)).index = k

---------------------------------------------------------------------------
(* The camera of the Galaxy: the frame loop with the right mouse button    *)
(* going down and up between the frames, checked as SpecCamera             *)

\* Stage::mouse_button_down_event(MouseButton::Right, x, y)
MouseButtonDownEvent ==
    /\ ~panicked
    /\ pc \in {"rebuild", "draw"}
    /\ EventsDelivered < MaxEvents
    /\ ~input_state.right_mouse_button_down
    /\ input_state' = mouse_button_event(input_state, TRUE)
    /\ input_log' = Append(input_log,
                           [op |-> "mouse_button_down_event",
                            mouse_wheel_dy |-> 0, mouse_diff |-> <<0, 0>>])
    /\ UNCHANGED <<min, max, items, internal, nodes, overflow_checks, panicked,
                   hil, last_call, texture_dirty, time_scale, pc, integrate_i,
                   updates, log, camera>>

\* Stage::mouse_button_up_event(MouseButton::Right, x, y)
MouseButtonUpEvent ==
    /\ ~panicked
    /\ pc \in {"rebuild", "draw"}
    /\ EventsDelivered < MaxEvents
    /\ input_state.right_mouse_button_down
    /\ input_state' = mouse_button_event(input_state, FALSE)
    /\ input_log' = Append(input_log,
                           [op |-> "mouse_button_up_event",
                            mouse_wheel_dy |-> 0, mouse_diff |-> <<0, 0>>])
    /\ UNCHANGED <<min, max, items, internal, nodes, overflow_checks, panicked,
                   hil, last_call, texture_dirty, time_scale, pc, integrate_i,
                   updates, log, camera>>

SpecCamera ==
    InitGalaxy /\ [][NextGalaxy \/ MouseButtonDownEvent \/ MouseButtonUpEvent]_vars

\* C30: in every Galaxy::update, wherever the mouse is, the
\* camera.highlighted_star and, when a star is locked, the
\* camera.locked_star that update_camera leaves are below the length of the
\* flat list of stars, so that the reads of the star at either index succeed
CameraIndicesValid ==
    (~panicked /\ pc = "rebuild") =>
        \A mouse_pos_world \in WorldPoints :
            LET cam == update_camera(camera, Tree, input_state, mouse_pos_world)
            IN  /\ cam.highlighted_star < Len(items)
                /\ cam.locked_star.is_some =>
                       cam.locked_star.index < Len(items)

===========================================================================
